---- MODULE Spec2Model ----
(***************************************************************************)
(* Model of the PoseApp motion-analysis core.                              *)
(*                                                                         *)
(* Units.  Angles are fixed-point numbers in hundredths of a degree        *)
(* (10.00 deg = 1000); timestamps and durations are hundredths of a second *)
(* (0.08 s = 8).  A Python float is a record [k, v]: k is "fin" for a      *)
(* finite value v, or one of "nan", "pinf", "ninf"; None is k = "none".    *)
(* Timestamps are floats too: a timestamp, and every difference of two     *)
(* timestamps, is rounded to TimeBits significant bits, the scaled-down    *)
(* counterpart of the 53 bits of a Python float.                           *)
(***************************************************************************)
EXTENDS Integers, Sequences, FiniteSets, TLC

----------------------------------------------------------------------------
(* CycleParams defaults (rep_detector.py), in the units above.             *)

baseline_band == 600
up_thresh == 2500
min_duration == 40
max_duration == 600
peak_hold == 8

----------------------------------------------------------------------------
(* Bounds of the model.                                                    *)

\* number of update() calls explored in one stream
MaxSamples == 7

\* significant bits of a timestamp
TimeBits == 9

----------------------------------------------------------------------------
(* Python float / None values.                                             *)

Fin(v) == [k |-> "fin", v |-> v]
NaN == [k |-> "nan", v |-> 0]
PInf == [k |-> "pinf", v |-> 0]
NInf == [k |-> "ninf", v |-> 0]
None == [k |-> "none", v |-> 0]

\* x - y in IEEE arithmetic
FSub(x, y) ==
  IF x.k = "nan" \/ y.k = "nan" THEN NaN
  ELSE IF x.k = "fin" /\ y.k = "fin" THEN Fin(x.v - y.v)
  ELSE IF x.k = "fin" THEN (IF y.k = "pinf" THEN NInf ELSE PInf)
  ELSE IF y.k = "fin" THEN x
  ELSE IF x.k = y.k THEN NaN
  ELSE x

\* abs(x)
FAbs(x) ==
  IF x.k = "fin" THEN Fin(IF x.v < 0 THEN 0 - x.v ELSE x.v)
  ELSE IF x.k = "ninf" THEN PInf
  ELSE x

\* x >= c, x <= c, x < c for a finite constant c; every comparison with NaN is False
FGe(x, c) == x.k = "pinf" \/ (x.k = "fin" /\ x.v >= c)
FLe(x, c) == x.k = "ninf" \/ (x.k = "fin" /\ x.v <= c)
FLt(x, c) == x.k = "ninf" \/ (x.k = "fin" /\ x.v < c)

\* the sample is None or fails a == a (only NaN does)
IsSkipped(a) == a.k = "none" \/ a.k = "nan"

\* absent or non-finite sample
IsBad(a) == a.k # "fin"

\* 2^n
RECURSIVE Pow2(_)
Pow2(n) == IF n = 0 THEN 1 ELSE 2 * Pow2(n - 1)

\* the spacing of the representable numbers around x >= 0
RECURSIVE Ulp(_)
Ulp(x) == IF x < Pow2(TimeBits) THEN 1 ELSE 2 * Ulp(x \div 2)

\* x >= 0 rounded to the nearest representable number, ties to even
RoundT(x) ==
  LET u == Ulp(x)
      q == x \div u
      r == x % u
  IN IF 2 * r < u THEN q * u
     ELSE IF 2 * r > u THEN (q + 1) * u
     ELSE IF q % 2 = 0 THEN q * u
     ELSE (q + 1) * u

\* x - y of two timestamps or durations, x >= y, in float arithmetic
TSub(x, y) == RoundT(x - y)

----------------------------------------------------------------------------
(* RepCycleDetector.                                                       *)

\* unset Optional[float] timestamp
NoT == -1

NoEvent == [ev |-> FALSE, t0 |-> 0, t1 |-> 0]
Event(t0, t1) == [ev |-> TRUE, t0 |-> t0, t1 |-> t1]

\* the detector's fields after reset()
reset == [state |-> "INIT", baseline |-> None, last_t |-> NoT,
          t_cycle_start |-> NoT, t_above_start |-> NoT]

\* _is_near_baseline(a) for baseline b
is_near_baseline(b, a) ==
  IF b.k = "none" THEN FALSE
  ELSE FLe(FAbs(FSub(a, b)), baseline_band)

\* 0.98 * b + 0.02 * a, rounded to the fixed-point grid
Ema(b, a) ==
  IF b.k = "nan" \/ a.k = "nan" THEN NaN
  ELSE IF b.k = "fin" /\ a.k = "fin" THEN Fin((98 * b.v + 2 * a.v + 50) \div 100)
  ELSE IF b.k = "fin" THEN a
  ELSE IF a.k = "fin" THEN b
  ELSE IF a.k = b.k THEN b
  ELSE NaN

\* _ensure_baseline(a): the new baseline
ensure_baseline(b, a) ==
  IF b.k = "none" THEN a ELSE Ema(b, a)

\* state INIT: wait until the signal is near the (just seeded) baseline
InitBranch(d, t, a) ==
  IF is_near_baseline(d.baseline, a)
    THEN [d EXCEPT !.baseline = ensure_baseline(d.baseline, a),
                   !.state = "AT_BASELINE", !.last_t = t]
    ELSE [d EXCEPT !.last_t = t]

\* state AT_BASELINE: adapt the baseline, watch for the start of a motion
AtBaselineBranch(d, t, a) ==
  LET b == ensure_baseline(d.baseline, a) IN
  IF FGe(FSub(a, b), up_thresh)
    THEN [d EXCEPT !.baseline = b, !.state = "GOING_UP",
                   !.t_cycle_start = t, !.t_above_start = NoT]
    ELSE [d EXCEPT !.baseline = b]

\* GoingUpBranch without the peak_hold debounce: one more sample at or above
\* up_thresh confirms the peak at once
GoingUpBranch_NoHold(d, t, a) ==
  IF FGe(FSub(a, d.baseline), up_thresh)
    THEN [d EXCEPT !.state = "ABOVE", !.t_above_start = t]
    ELSE IF is_near_baseline(d.baseline, a)
           THEN [d EXCEPT !.state = "AT_BASELINE",
                          !.t_cycle_start = NoT, !.t_above_start = NoT]
           ELSE d

\* state GOING_UP: hold above the threshold, or fall back to baseline
GoingUpBranch(d, t, a) ==
  IF FGe(FSub(a, d.baseline), up_thresh)
    THEN IF d.t_above_start = NoT
           THEN [d EXCEPT !.t_above_start = t]
           ELSE IF TSub(t, d.t_above_start) >= peak_hold
                  THEN [d EXCEPT !.state = "ABOVE"]
                  ELSE d
    ELSE IF is_near_baseline(d.baseline, a)
           THEN [d EXCEPT !.state = "AT_BASELINE",
                          !.t_cycle_start = NoT, !.t_above_start = NoT]
           ELSE d

\* AboveBranch that closes the cycle at once when the sample is already back
\* in the baseline band, without passing through GOING_DOWN
AboveBranch_ClosesCycle(d, t, a) ==
  IF FLt(FSub(a, d.baseline), up_thresh \div 2)
    THEN IF is_near_baseline(d.baseline, a)
           THEN [d EXCEPT !.state = "AT_BASELINE",
                          !.t_cycle_start = NoT, !.t_above_start = NoT]
           ELSE [d EXCEPT !.state = "GOING_DOWN"]
    ELSE d

\* AboveBranch with the comparison flipped: descending while the excursion
\* is still at or above half of up_thresh
AboveBranch_Flipped(d, t, a) ==
  IF FGe(FSub(a, d.baseline), up_thresh \div 2)
    THEN [d EXCEPT !.state = "GOING_DOWN"]
    ELSE d

\* state ABOVE: descending once the excursion is below half of up_thresh
AboveBranch(d, t, a) ==
  IF FLt(FSub(a, d.baseline), up_thresh \div 2)
    THEN [d EXCEPT !.state = "GOING_DOWN"]
    ELSE d

\* state GOING_DOWN: back near baseline closes the cycle; [d, ret]
GoingDownBranch(d, t, a) ==
  IF is_near_baseline(d.baseline, a)
    THEN IF d.t_cycle_start # NoT
           THEN LET dur == TSub(t, d.t_cycle_start)
                    nd == [d EXCEPT !.state = "AT_BASELINE",
                                    !.t_above_start = NoT, !.t_cycle_start = NoT]
                IN IF min_duration <= dur /\ dur <= max_duration
                     THEN [d |-> nd, ret |-> Event(TSub(t, dur), t)]
                     ELSE [d |-> nd, ret |-> NoEvent]
           ELSE [d |-> [d EXCEPT !.state = "AT_BASELINE"], ret |-> NoEvent]
    ELSE [d |-> d, ret |-> NoEvent]

\* the safety timeout is due for detector d at time t
TimeoutDue(d, t) ==
  d.t_cycle_start # NoT /\ TSub(t, d.t_cycle_start) > max_duration

\* SafetyTimeout that resets the state and the cycle start but leaves the
\* start of the hold in place
SafetyTimeout_KeepsHold(d, t) ==
  IF TimeoutDue(d, t)
    THEN [d EXCEPT !.state = "AT_BASELINE", !.t_cycle_start = NoT, !.last_t = t]
    ELSE [d EXCEPT !.last_t = t]

\* SafetyTimeout that measures the cycle from the start of the hold
SafetyTimeout_FromHold(d, t) ==
  IF d.t_above_start # NoT /\ TSub(t, d.t_above_start) > max_duration
    THEN [d EXCEPT !.state = "AT_BASELINE", !.t_cycle_start = NoT,
                   !.t_above_start = NoT, !.last_t = t]
    ELSE [d EXCEPT !.last_t = t]

\* safety timeout and _last_t bookkeeping at the end of update()
SafetyTimeout(d, t) ==
  IF TimeoutDue(d, t)
    THEN [d EXCEPT !.state = "AT_BASELINE", !.t_cycle_start = NoT,
                   !.t_above_start = NoT, !.last_t = t]
    ELSE [d EXCEPT !.last_t = t]

\* update(t, a): [d |-> the fields afterwards, ret |-> the returned value,
\*                timeout |-> the safety timeout reset the detector]
update(d0, t, a) ==
  IF IsSkipped(a)
    THEN [d |-> [d0 EXCEPT !.last_t = t], ret |-> NoEvent, timeout |-> FALSE]
    ELSE
      LET d == IF d0.baseline.k = "none" THEN [d0 EXCEPT !.baseline = a] ELSE d0 IN
      IF d.state = "INIT"
        THEN [d |-> InitBranch(d, t, a), ret |-> NoEvent, timeout |-> FALSE]
        ELSE
          LET r == CASE d.state = "AT_BASELINE" -> [d |-> AtBaselineBranch(d, t, a), ret |-> NoEvent]
                     [] d.state = "GOING_UP" -> [d |-> GoingUpBranch(d, t, a), ret |-> NoEvent]
                     [] d.state = "ABOVE" -> [d |-> AboveBranch(d, t, a), ret |-> NoEvent]
                     [] d.state = "GOING_DOWN" -> GoingDownBranch(d, t, a)
          IN IF r.ret.ev
               THEN [d |-> r.d, ret |-> r.ret, timeout |-> FALSE]
               ELSE [d |-> SafetyTimeout(r.d, t), ret |-> NoEvent,
                     timeout |-> TimeoutDue(r.d, t)]

----------------------------------------------------------------------------
(* Scoring primitive and activity rule engine (scorer.py, activity_rules.py). *)
(* A score is in hundredths (1.0 = 100).  Keypoint coordinates and           *)
(* confidences are in thousandths of the normalised image (0.03 = 30).       *)
(* An angle series is a sequence of <<t, v>>; a snapshot list a sequence of  *)
(* <<t, kp>>, kp a function from the names of the detected keypoints to      *)
(* [x, y, conf].  A message is the list of hints that "; ".join() joins.     *)

\* score_band with the band limits excluded (d < 5, d < 10)
score_band_OpenBands(measured, target) ==
  IF measured.k # "fin" THEN [s |-> 0, band |-> "Red"]
  ELSE LET d == FAbs(FSub(measured, Fin(target))).v IN
       IF d < 500 THEN [s |-> 100, band |-> "Green"]
       ELSE IF d < 1000 THEN [s |-> 50, band |-> "Amber"]
       ELSE [s |-> 0, band |-> "Red"]

\* score_band(measured, target)
score_band(measured, target) ==
  IF measured.k # "fin" THEN [s |-> 0, band |-> "Red"]
  ELSE LET d == FAbs(FSub(measured, Fin(target))).v IN
       IF d <= 500 THEN [s |-> 100, band |-> "Green"]
       ELSE IF d <= 1000 THEN [s |-> 50, band |-> "Amber"]
       ELSE [s |-> 0, band |-> "Red"]

\* num / den (num >= 0, den > 0) rounded to the nearest whole number; a value
\* half-way between two goes down or up as tie says: round() works on the
\* binary float, and whether a nominal half such as 32.85 lies below or above
\* the half depends on its last bits
RoundHalf(num, den, tie) ==
  LET q == num \div den
      r == num % den
  IN IF 2 * r < den THEN q
     ELSE IF 2 * r > den THEN q + 1
     ELSE IF tie = "down" THEN q ELSE q + 1

Ties == {"down", "up"}

\* sum of a sequence of integers
RECURSIVE SumScores(_)
SumScores(q) == IF q = <<>> THEN 0 ELSE Head(q) + SumScores(Tail(q))

\* the call raised an exception
Raised == [raised |-> TRUE, v |-> 0]
Value(v) == [raised |-> FALSE, v |-> v]

\* 1000 * (0.7 * mean_rep + 0.3 * form_stab) as the exact ratio num / den, for
\* rep scores in hundredths and form_stab in thousandths; mean_rep is 0.0 for
\* an empty list
WeightedScore(rep_scores, form_stab) ==
  IF rep_scores = <<>> THEN [num |-> 3 * form_stab, den |-> 10]
  ELSE [num |-> 70 * SumScores(rep_scores) + 3 * form_stab * Len(rep_scores),
        den |-> 10 * Len(rep_scores)]

\* the penalty applied from si = 15 on (si >= 15.0)
final_score_PenaltyAt15(rep_scores, form_stab, si, tie) ==
  IF si.k = "none" THEN Raised
  ELSE LET w == WeightedScore(rep_scores, form_stab)
       IN IF FGe(si, 1500)
            THEN Value(RoundHalf(9 * w.num, 10 * w.den, tie))
            ELSE Value(RoundHalf(w.num, w.den, tie))

\* final_score(rep_scores, form_stab, si) in tenths, si in hundredths; the
\* comparison None > 15.0 raises TypeError, and nan > 15.0 is False
final_score(rep_scores, form_stab, si, tie) ==
  IF si.k = "none" THEN Raised
  ELSE LET w == WeightedScore(rep_scores, form_stab)
       IN IF si.k = "pinf" \/ (si.k = "fin" /\ si.v > 1500)
            THEN Value(RoundHalf(9 * w.num, 10 * w.den, tie))
            ELSE Value(RoundHalf(w.num, w.den, tie))

\* symmetry_index(L, R) in hundredths of a percent:
\* 100 * abs(L - R) / (0.5 * (L + R) + 1e-6), cut to the grid.  Only None is tested for; with a
\* NaN or an infinite side L + R is not 0 and the quotient is NaN (nan / x,
\* inf / inf).  The 1e-6 is below the grid
symmetry_index(L, R) ==
  IF L.k = "none" \/ R.k = "none" THEN Fin(0)
  ELSE IF L.k # "fin" \/ R.k # "fin" THEN NaN
  ELSE IF L.v + R.v = 0 THEN Fin(0)
  ELSE LET gap == FAbs(FSub(L, R)).v
           total == L.v + R.v
       IN IF total > 0 THEN Fin((20000 * gap) \div total)
          ELSE Fin(0 - ((20000 * gap) \div (0 - total)))

\* the largest / smallest member of a non-empty set of integers
SetMax(S) == CHOOSE m \in S : \A x \in S : x <= m
SetMin(S) == CHOOSE m \in S : \A x \in S : m <= x

\* d.get(k, default) of a dict modelled as a function
Get(d, k, default) == IF k \in DOMAIN d THEN d[k] ELSE default

\* a peak taken over the whole series, the window ignored
peak_in_window_WholeSeries(series, t0, t1) ==
  LET vals == {series[i][2] : i \in DOMAIN series}
  IN IF vals = {} THEN NaN ELSE Fin(SetMax(vals))

\* _peak_in_window(series, t0, t1): maximum of the samples with t0 <= t <= t1
peak_in_window(series, t0, t1) ==
  LET vals == {series[i][2] : i \in {j \in DOMAIN series :
                                       t0 <= series[j][1] /\ series[j][1] <= t1}}
  IN IF vals = {} THEN NaN ELSE Fin(SetMax(vals))

\* the bands of the listed joints: score_band of the peak against the target
JointBands(joints, default, t0, t1, series_by_joint, targets) ==
  [j \in joints |->
     score_band(peak_in_window(Get(series_by_joint, j, <<>>), t0, t1),
                Get(targets, j, default))]

\* max() of two scores
Max2(a, b) == IF a >= b THEN a ELSE b

\* the values r.v of the entries r of a sequence for which r.ok, in order
IsOk(r) == r.ok
Collect(all) ==
  LET kept == SelectSeq(all, IsOk)
  IN [i \in 1..Len(kept) |-> kept[i].v]

\* the members of a sequence of integers
Range(f) == {f[i] : i \in DOMAIN f}

\* the mid-hip height of one snapshot (doubled), when both hips carry a y
SquatHipY(snap) ==
  LET kp == snap[2] IN
  IF "left_hip" \in DOMAIN kp /\ "right_hip" \in DOMAIN kp
    THEN [ok |-> TRUE, v |-> kp["left_hip"].y + kp["right_hip"].y]
    ELSE [ok |-> FALSE, v |-> 0]

SquatJoints ==
  {"knee_L_flex", "knee_R_flex", "hip_L_flex", "hip_R_flex", "ankle_L_pf", "ankle_R_pf"}

\* _squat_constraints(t0, t1, series_by_joint, snapshots, targets)
squat_constraints(t0, t1, series_by_joint, snapshots, targets) ==
  LET bands == JointBands(SquatJoints, 9000, t0, t1, series_by_joint, targets)
      ys == Collect([i \in 1..Len(snapshots) |-> SquatHipY(snapshots[i])])
      \* 0.5 * (yL + yR) spans 0.03 or more
      dropped == Len(ys) >= 3 /\ SetMax(Range(ys)) - SetMin(Range(ys)) >= 2 * 30
      best_knee == Max2(bands["knee_L_flex"].s, bands["knee_R_flex"].s)
      msg == (IF best_knee < 50 THEN <<"bend knees deeper">> ELSE <<>>)
             \o (IF ~dropped THEN <<"lower hips more">> ELSE <<>>)
  IN [counted |-> (best_knee >= 50) /\ dropped,
      message |-> IF msg = <<>> THEN <<"ok">> ELSE msg,
      bands |-> bands]

\* the left-minus-right wrist x of one snapshot, when the snapshot is inside
\* [t0, t1] and both wrists are present with confidence 0.4 or more
WristDx(t0, t1, snap) ==
  LET kp == snap[2] IN
  IF /\ t0 <= snap[1] /\ snap[1] <= t1
     /\ "left_wrist" \in DOMAIN kp /\ "right_wrist" \in DOMAIN kp
     /\ kp["left_wrist"].conf >= 400 /\ kp["right_wrist"].conf >= 400
    THEN [ok |-> TRUE, v |-> kp["left_wrist"].x - kp["right_wrist"].x]
    ELSE [ok |-> FALSE, v |-> 0]

\* np.sign
Sign(x) == IF x > 0 THEN 1 ELSE IF x < 0 THEN -1 ELSE 0

ArmJoints == {"shoulder_L_abd", "shoulder_R_abd"}

\* an arm-abduction assessor that counts a rep only when a crossing was seen
arm_abduction_constraints_NeedsCrossing(t0, t1, series_by_joint, snapshots, targets) ==
  LET bands == JointBands(ArmJoints, 17500, t0, t1, series_by_joint, targets)
      best == Max2(bands["shoulder_L_abd"].s, bands["shoulder_R_abd"].s)
      wrx == Collect([i \in 1..Len(snapshots) |-> WristDx(t0, t1, snapshots[i])])
      crossed == \E i \in 1..(Len(wrx) - 1) : Sign(wrx[i]) # Sign(wrx[i + 1])
      msg == (IF best < 50 THEN <<"raise arms wider">> ELSE <<>>)
             \o (IF ~crossed THEN <<"wrists didn't cross midline">> ELSE <<>>)
  IN [counted |-> (best >= 50) /\ crossed,
      message |-> IF msg = <<>> THEN <<"ok">> ELSE msg,
      bands |-> bands]

\* _arm_abduction_constraints(t0, t1, series_by_joint, snapshots, targets)
\* (the source spells the hint with a typographic apostrophe)
arm_abduction_constraints(t0, t1, series_by_joint, snapshots, targets) ==
  LET bands == JointBands(ArmJoints, 17500, t0, t1, series_by_joint, targets)
      best == Max2(bands["shoulder_L_abd"].s, bands["shoulder_R_abd"].s)
      wrx == Collect([i \in 1..Len(snapshots) |-> WristDx(t0, t1, snapshots[i])])
      crossed == /\ Len(wrx) >= 3
                 /\ \E i \in 1..(Len(wrx) - 1) :
                      \/ Sign(wrx[i]) = 0
                      \/ Sign(wrx[i + 1]) = 0
                      \/ Sign(wrx[i]) # Sign(wrx[i + 1])
      msg == (IF best < 50 THEN <<"raise arms wider">> ELSE <<>>)
             \o (IF Len(wrx) >= 3 /\ ~crossed
                   THEN <<"wrists didn't cross midline">> ELSE <<>>)
  IN [counted |-> (best >= 50) /\ (crossed \/ Len(wrx) < 3),
      message |-> IF msg = <<>> THEN <<"ok">> ELSE msg,
      bands |-> bands]

\* series keys that name a left-side joint ("_L_" in k or k ends with "_L")
\* and a right-side joint, among the joint names of the application
LeftKeys ==
  {"knee_L_flex", "hip_L_flex", "ankle_L_pf", "ankle_L_flex", "shoulder_L_abd",
   "shoulder_L_abd_alt", "shoulder_L_flex", "hip_L_abd"}
RightKeys ==
  {"knee_R_flex", "hip_R_flex", "ankle_R_pf", "ankle_R_flex", "shoulder_R_abd",
   "shoulder_R_abd_alt", "shoulder_R_flex", "hip_R_abd"}

\* _dominant_side_from_series(keys, fallback = "L")
dominant_side_from_series(keys) ==
  LET hasL == \E k \in keys : k \in LeftKeys
      hasR == \E k \in keys : k \in RightKeys
  IN IF hasL /\ ~hasR THEN "L"
     ELSE IF hasR /\ ~hasL THEN "R"
     ELSE "L"

\* the squared distance of two keypoints (np.hypot, squared)
DistSq(p1, p2) == (p1.x - p2.x) * (p1.x - p2.x) + (p1.y - p2.y) * (p1.y - p2.y)

\* _hip_width(snapshot), squared; ok is FALSE for None
HipWidthSq(kp) ==
  IF "left_hip" \in DOMAIN kp /\ "right_hip" \in DOMAIN kp
    THEN [ok |-> TRUE, v |-> DistSq(kp["left_hip"], kp["right_hip"])]
    ELSE [ok |-> FALSE, v |-> 0]

\* s.get(toe) or s.get(ankle) or s.get(heel): the name of the foot landmark,
\* "" when there is none
FootName(kp, side) ==
  LET toe == IF side = "L" THEN "left_toe" ELSE "right_toe"
      ankle == IF side = "L" THEN "left_ankle" ELSE "right_ankle"
      heel == IF side = "L" THEN "left_heel" ELSE "right_heel"
  IN IF toe \in DOMAIN kp THEN toe
     ELSE IF ankle \in DOMAIN kp THEN ankle
     ELSE IF heel \in DOMAIN kp THEN heel
     ELSE ""

\* one snapshot's wrist-to-foot distance and hip width, both squared; ok is
\* FALSE when the wrist, the foot or a hip width above 1e-6 is missing
ReachOf(snap, side) ==
  LET kp == snap[2]
      wrist == IF side = "L" THEN "left_wrist" ELSE "right_wrist"
      foot == FootName(kp, side)
      hw == HipWidthSq(kp)
  IN IF wrist \in DOMAIN kp /\ foot # "" /\ hw.ok /\ hw.v > 0
       THEN [ok |-> TRUE, d2 |-> DistSq(kp[wrist], kp[foot]), hw2 |-> hw.v]
       ELSE [ok |-> FALSE, d2 |-> 0, hw2 |-> 1]

\* _min_wrist_to_foot_norm(snaps, side): the smallest d / hw as the pair of
\* squares [d2, hw2]; ok is FALSE for None
min_wrist_to_foot_norm(snaps, side) ==
  LET valid == SelectSeq([i \in 1..Len(snaps) |-> ReachOf(snaps[i], side)], IsOk)
  IN IF Len(valid) = 0 THEN [ok |-> FALSE, d2 |-> 0, hw2 |-> 1]
     ELSE LET i == CHOOSE i \in 1..Len(valid) :
                     \A j \in 1..Len(valid) :
                       valid[i].d2 * valid[j].hw2 <= valid[j].d2 * valid[i].hw2
          IN valid[i]

\* one snapshot's ankle height and squared hip width; ok is FALSE when the
\* ankle or a hip width above 1e-6 is missing
AnkleOf(snap, side) ==
  LET kp == snap[2]
      name == IF side = "L" THEN "left_ankle" ELSE "right_ankle"
      hw == HipWidthSq(kp)
  IN IF name \in DOMAIN kp /\ hw.ok /\ hw.v > 0
       THEN [ok |-> TRUE, y |-> kp[name].y, hw2 |-> hw.v]
       ELSE [ok |-> FALSE, y |-> 0, hw2 |-> 1]

\* the elements of a sequence of integers in ascending order
RECURSIVE Ascending(_)
Ascending(q) ==
  IF Len(q) = 0 THEN <<>>
  ELSE LET i == CHOOSE i \in 1..Len(q) : \A j \in 1..Len(q) : q[i] <= q[j]
       IN <<q[i]>> \o Ascending([k \in 1..(Len(q) - 1) |-> IF k < i THEN q[k] ELSE q[k + 1]])

\* rise / np.median(hws) >= 0.05 for the squared hip widths hw2s: the median
\* is the middle width, or the mean of the two middle ones
RiseAtLeastTwentieth(rise, hw2s) ==
  LET srt == Ascending(hw2s)
      n == Len(srt)
  IN IF n % 2 = 1
       THEN (20 * rise) * (20 * rise) >= srt[(n + 1) \div 2]
       ELSE LET a == srt[n \div 2]
                b == srt[n \div 2 + 1]
                x == (40 * rise) * (40 * rise) - a - b
            \* 46340 is the largest integer whose square fits in 32 bits
            IN x >= 0 /\ (x > 46340 \/ x * x >= 4 * a * b)

\* _ankle_vertical_rise_norm(snaps, side) >= 0.05; ok is FALSE for None
ankle_vertical_rise_norm(snaps, side) ==
  LET valid == SelectSeq([i \in 1..Len(snaps) |-> AnkleOf(snaps[i], side)], IsOk)
      ys == {valid[i].y : i \in 1..Len(valid)}
  IN IF Len(valid) < 2 THEN [ok |-> FALSE, enough |-> FALSE]
     ELSE [ok |-> TRUE,
           enough |-> RiseAtLeastTwentieth(SetMax(ys) - SetMin(ys),
                                           [i \in 1..Len(valid) |-> valid[i].hw2])]

\* a forward-flexion assessor that reports the shoulder band of score_band
\* whatever the reach
forward_flexion_constraints_RawBand(t0, t1, series_by_joint, snapshots, targets) ==
  LET side == dominant_side_from_series(DOMAIN series_by_joint)
      sj == IF side = "L" THEN "shoulder_L_flex" ELSE "shoulder_R_flex"
      hj == IF side = "L" THEN "hip_L_flex" ELSE "hip_R_flex"
      sh == score_band(peak_in_window(Get(series_by_joint, sj, <<>>), t0, t1),
                       Get(targets, sj, 9000))
      hip == score_band(peak_in_window(Get(series_by_joint, hj, <<>>), t0, t1),
                        Get(targets, hj, 3000))
      dmin == min_wrist_to_foot_norm(snapshots, side)
      prox_ok == dmin.ok /\ 25 * dmin.d2 <= 9 * dmin.hw2
      msg == (IF sh.s < 50 THEN <<"flex shoulder more">> ELSE <<>>)
             \o (IF ~prox_ok THEN <<"reach closer to feet">> ELSE <<>>)
  IN [counted |-> (sh.s >= 50) /\ prox_ok,
      message |-> IF msg = <<>> THEN <<"ok">> ELSE msg,
      bands |-> [j \in {sj, hj} |-> IF j = sj THEN sh ELSE hip]]

\* _forward_flexion_constraints(t0, t1, series_by_joint, snapshots, targets)
forward_flexion_constraints(t0, t1, series_by_joint, snapshots, targets) ==
  LET side == dominant_side_from_series(DOMAIN series_by_joint)
      sj == IF side = "L" THEN "shoulder_L_flex" ELSE "shoulder_R_flex"
      hj == IF side = "L" THEN "hip_L_flex" ELSE "hip_R_flex"
      sh == score_band(peak_in_window(Get(series_by_joint, sj, <<>>), t0, t1),
                       Get(targets, sj, 9000))
      hip == score_band(peak_in_window(Get(series_by_joint, hj, <<>>), t0, t1),
                        Get(targets, hj, 3000))
      dmin == min_wrist_to_foot_norm(snapshots, side)
      \* dmin <= 0.60
      prox_ok == dmin.ok /\ 25 * dmin.d2 <= 9 * dmin.hw2
      msg == (IF sh.s < 50 THEN <<"flex shoulder more">> ELSE <<>>)
             \o (IF ~prox_ok THEN <<"reach closer to feet">> ELSE <<>>)
      shown == IF ~dmin.ok THEN [s |-> sh.s, band |-> "Red"]
               ELSE IF ~prox_ok /\ sh.band = "Green" THEN [s |-> 50, band |-> "Amber"]
               ELSE sh
  IN [counted |-> (sh.s >= 50) /\ prox_ok,
      message |-> IF msg = <<>> THEN <<"ok">> ELSE msg,
      bands |-> [j \in {sj, hj} |-> IF j = sj THEN shown ELSE hip]]

\* _calf_raise_constraints(t0, t1, series_by_joint, snapshots, targets)
calf_raise_constraints(t0, t1, series_by_joint, snapshots, targets) ==
  LET side == dominant_side_from_series(DOMAIN series_by_joint)
      aj == IF side = "L" THEN "ankle_L_pf" ELSE "ankle_R_pf"
      an == score_band(peak_in_window(Get(series_by_joint, aj, <<>>), t0, t1),
                       Get(targets, aj, 2500))
      rise_norm == ankle_vertical_rise_norm(snapshots, side)
      rise_ok == rise_norm.ok /\ rise_norm.enough
      msg == (IF an.s < 50 THEN <<"plantarflex more">> ELSE <<>>)
             \o (IF ~rise_ok THEN <<"rise onto toes more">> ELSE <<>>)
      shown == IF ~rise_norm.ok THEN [s |-> an.s, band |-> "Red"]
               ELSE IF ~rise_ok /\ an.band = "Green" THEN [s |-> 50, band |-> "Amber"]
               ELSE an
  IN [counted |-> (an.s >= 50) /\ rise_ok,
      message |-> IF msg = <<>> THEN <<"ok">> ELSE msg,
      bands |-> [j \in {aj} |-> shown]]

\* the sum of a sequence of integers
RECURSIVE SumSeq(_)
SumSeq(q) == IF Len(q) = 0 THEN 0 ELSE q[1] + SumSeq(Tail(q))

\* the greatest common divisor of two naturals, and of a sequence and a natural
RECURSIVE Gcd(_, _)
Gcd(a, b) == IF b = 0 THEN a ELSE Gcd(b, a % b)
RECURSIVE GcdSeq(_, _)
GcdSeq(q, g) ==
  IF Len(q) = 0 THEN g
  ELSE GcdSeq(Tail(q), Gcd(g, IF q[1] < 0 THEN 0 - q[1] ELSE q[1]))

\* _avg_in_window(keys): the in-window samples of the listed joints bucketed by
\* timestamp and sorted; each entry is <<t, twice the mean of the bucket>>
\* (a bucket holds one sample per joint)
avg_in_window(keys, series_by_joint, t0, t1) ==
  LET samples(k) == LET q == Get(series_by_joint, k, <<>>)
                    IN {<<k, i>> : i \in {j \in DOMAIN q : t0 <= q[j][1] /\ q[j][1] <= t1}}
      all == UNION {samples(k) : k \in keys}
      at(t) == {e \in all : series_by_joint[e[1]][e[2]][1] = t}
      total(S) == LET RECURSIVE Sum(_)
                      Sum(X) == IF X = {} THEN 0
                                ELSE LET e == CHOOSE e \in X : TRUE
                                     IN series_by_joint[e[1]][e[2]][2] + Sum(X \ {e})
                  IN Sum(S)
      ts == Ascending(LET T == {series_by_joint[e[1]][e[2]][1] : e \in all}
                          RECURSIVE AsSeq(_)
                          AsSeq(X) == IF X = {} THEN <<>>
                                      ELSE LET x == CHOOSE x \in X : TRUE
                                           IN <<x>> \o AsSeq(X \ {x})
                      IN AsSeq(T))
  IN [i \in 1..Len(ts) |-> <<ts[i], (2 * total(at(ts[i]))) \div Cardinality(at(ts[i]))>>]

\* the points of a trajectory are equally spaced in time
EquallySpaced(pts) ==
  \A i \in 2..(Len(pts) - 1) : pts[i + 1][1] - pts[i][1] = pts[i][1] - pts[i - 1][1]

\* np.interp at point k (0..19) of the 20-point grid np.linspace spans over a
\* trajectory of equally spaced points, times 19
GridValue(pts, k) ==
  LET n == Len(pts)
      seg == ((n - 1) * k) \div 19
      rem == ((n - 1) * k) % 19
  IN IF rem = 0 THEN 19 * pts[seg + 1][2]
     ELSE 19 * pts[seg + 1][2] + (pts[seg + 2][2] - pts[seg + 1][2]) * rem

\* np.diff of the interpolated trajectory, times 19
GridDiff(pts) == [k \in 1..19 |-> GridValue(pts, k) - GridValue(pts, k - 1)]

\* a sequence of integers divided by its greatest common divisor c
Reduced(q, c) == [i \in DOMAIN q |-> q[i] \div c]

\* n * n * variance and n * n * covariance of sequences of n integers
VarN2(q) ==
  Len(q) * SumSeq([i \in DOMAIN q |-> q[i] * q[i]]) - SumSeq(q) * SumSeq(q)
CovN2(q, r) ==
  Len(q) * SumSeq([i \in DOMAIN q |-> q[i] * r[i]]) - SumSeq(q) * SumSeq(r)

\* np.std(d) > 1e-3 for d = c * q / 3800 degrees (q in reduced units: twice
\* the mean, times 19, of hundredths of a degree, divided by c):
\* c * c * VarN2(q) > 361 * 14.44
StdAboveEps(q, c) ==
  IF c >= 73 THEN VarN2(q) >= 1 ELSE c * c * VarN2(q) >= 5213

\* the rhythm cue of _jumping_jack_constraints for two trajectories that share
\* their equally spaced timestamps
rhythm_ok(arms, legs) ==
  IF Len(arms) >= 4 /\ Len(legs) >= 4
    THEN CASE (/\ EquallySpaced(arms) /\ EquallySpaced(legs)
               /\ arms[1][1] = legs[1][1]
               /\ arms[Len(arms)][1] = legs[Len(legs)][1]) ->
           LET da == GridDiff(arms)
               dl == GridDiff(legs)
               ca == LET g == GcdSeq(da, 0) IN IF g = 0 THEN 1 ELSE g
               cl == LET g == GcdSeq(dl, 0) IN IF g = 0 THEN 1 ELSE g
               qa == Reduced(da, ca)
               ql == Reduced(dl, cl)
           IN IF StdAboveEps(qa, ca) /\ StdAboveEps(ql, cl)
                \* np.corrcoef(da, dl)[0, 1] >= 0.2
                THEN /\ CovN2(qa, ql) >= 0
                     /\ 25 * CovN2(qa, ql) * CovN2(qa, ql) >= VarN2(qa) * VarN2(ql)
                \* corr = 0.0, and 0.0 >= 0.2 is False
                ELSE FALSE
    ELSE TRUE

JackArms == {"shoulder_L_abd", "shoulder_R_abd"}
JackLegs == {"hip_L_abd", "hip_R_abd"}

\* a jumping-jack assessor that has no hint for a failed rhythm check
jumping_jack_constraints_NoRhythmHint(t0, t1, series_by_joint, snapshots, targets) ==
  LET bands == JointBands(JackArms, 17500, t0, t1, series_by_joint, targets)
               @@ JointBands(JackLegs, 3000, t0, t1, series_by_joint, targets)
      best_arm == Max2(bands["shoulder_L_abd"].s, bands["shoulder_R_abd"].s)
      best_leg == Max2(bands["hip_L_abd"].s, bands["hip_R_abd"].s)
      rhythm == rhythm_ok(avg_in_window(JackArms, series_by_joint, t0, t1),
                          avg_in_window(JackLegs, series_by_joint, t0, t1))
      msg == (IF best_arm < 50 THEN <<"raise arms higher">> ELSE <<>>)
             \o (IF best_leg < 50 THEN <<"spread legs wider">> ELSE <<>>)
  IN [counted |-> (best_arm >= 50) /\ (best_leg >= 50) /\ rhythm,
      message |-> IF msg = <<>> THEN <<"ok">> ELSE msg,
      bands |-> bands]

\* _jumping_jack_constraints(t0, t1, series_by_joint, snapshots, targets)
jumping_jack_constraints(t0, t1, series_by_joint, snapshots, targets) ==
  LET bands == JointBands(JackArms, 17500, t0, t1, series_by_joint, targets)
               @@ JointBands(JackLegs, 3000, t0, t1, series_by_joint, targets)
      best_arm == Max2(bands["shoulder_L_abd"].s, bands["shoulder_R_abd"].s)
      best_leg == Max2(bands["hip_L_abd"].s, bands["hip_R_abd"].s)
      rhythm == rhythm_ok(avg_in_window(JackArms, series_by_joint, t0, t1),
                          avg_in_window(JackLegs, series_by_joint, t0, t1))
      msg == (IF best_arm < 50 THEN <<"raise arms higher">> ELSE <<>>)
             \o (IF best_leg < 50 THEN <<"spread legs wider">> ELSE <<>>)
             \o (IF ~rhythm THEN <<"sync arms/legs rhythm">> ELSE <<>>)
  IN [counted |-> (best_arm >= 50) /\ (best_leg >= 50) /\ rhythm,
      message |-> IF msg = <<>> THEN <<"ok">> ELSE msg,
      bands |-> bands]

\* the keys assess_activity_rep routes to an assessor
AssessorKeys == {"squat", "arm_abduction", "forward_flexion", "calf_raise", "jumping_jack"}

\* an assess_activity_rep that rejects the keys it has no assessor for
assess_activity_rep_Strict(key, series_by_joint, t0, t1, snapshots, targets) ==
  CASE key = "squat" ->
         squat_constraints(t0, t1, series_by_joint, snapshots, targets)
    [] key = "arm_abduction" ->
         arm_abduction_constraints(t0, t1, series_by_joint, snapshots, targets)
    [] key = "forward_flexion" ->
         forward_flexion_constraints(t0, t1, series_by_joint, snapshots, targets)
    [] key = "calf_raise" ->
         calf_raise_constraints(t0, t1, series_by_joint, snapshots, targets)
    [] key = "jumping_jack" ->
         jumping_jack_constraints(t0, t1, series_by_joint, snapshots, targets)
    [] key \notin AssessorKeys ->
         [counted |-> FALSE, message |-> <<"unknown activity">>, bands |-> <<>>]

\* assess_activity_rep(key, series_by_joint, t0, t1, snapshots, targets)
assess_activity_rep(key, series_by_joint, t0, t1, snapshots, targets) ==
  CASE key = "squat" ->
         squat_constraints(t0, t1, series_by_joint, snapshots, targets)
    [] key = "arm_abduction" ->
         arm_abduction_constraints(t0, t1, series_by_joint, snapshots, targets)
    [] key = "forward_flexion" ->
         forward_flexion_constraints(t0, t1, series_by_joint, snapshots, targets)
    [] key = "calf_raise" ->
         calf_raise_constraints(t0, t1, series_by_joint, snapshots, targets)
    [] key = "jumping_jack" ->
         jumping_jack_constraints(t0, t1, series_by_joint, snapshots, targets)
    [] key \notin AssessorKeys ->
         [counted |-> TRUE, message |-> <<"ok">>, bands |-> <<>>]

\* ACTIVITY_LIBRARY[key]["targets"], the mapping a guided trial passes on
LibraryTargets(key) ==
  CASE key = "squat" ->
         [j \in {"knee_L_flex", "knee_R_flex"} |-> 9000]
         @@ [j \in {"hip_L_flex", "hip_R_flex"} |-> 8500]
         @@ [j \in {"ankle_L_flex", "ankle_R_flex"} |-> 7500]
    [] key = "arm_abduction" ->
         [j \in {"shoulder_L_abd", "shoulder_R_abd"} |-> 9000]
         @@ [j \in {"shoulder_L_abd_alt", "shoulder_R_abd_alt"} |-> 12000]
    [] key = "forward_flexion" ->
         [j \in {"shoulder_L_flex", "shoulder_R_flex"} |-> 9000]
    [] key = "calf_raise" ->
         [j \in {"ankle_L_flex", "ankle_R_flex"} |-> 11000]
    [] key = "jumping_jack" ->
         [j \in {"shoulder_L_abd", "shoulder_R_abd"} |-> 12000]
         @@ [j \in {"hip_L_abd", "hip_R_abd"} |-> 4500]
    [] OTHER -> <<>>

----------------------------------------------------------------------------
(* Joint angles of one frame (geometry/angles.py).  A point is [ok, x, y],  *)
(* ok FALSE for None; coordinates are integers, multiples of 4, so that the *)
(* midpoints are exact.  An angle is kept as the direction it subtends:     *)
(* [c, s] with cos : sin = c : s, s >= 0, in lowest terms (0 deg = [1, 0],  *)
(* 90 deg = [0, 1], 180 deg = [-1, 0]).                                     *)

NoPoint == [ok |-> FALSE, x |-> 0, y |-> 0]
Pt(x, y) == [ok |-> TRUE, x |-> x, y |-> y]

\* a _get_xy that does not look at the confidence
get_xy_AnyConfidence(kpmap, name) ==
  IF name \in DOMAIN kpmap THEN Pt(kpmap[name].x, kpmap[name].y) ELSE NoPoint

\* _get_xy(kpmap, name)
get_xy(kpmap, name) ==
  IF name \in DOMAIN kpmap /\ kpmap[name].conf >= 300
    THEN Pt(kpmap[name].x, kpmap[name].y)
    ELSE NoPoint

\* midpoint(a, b)
midpoint(a, b) == Pt((a.x + b.x) \div 2, (a.y + b.y) \div 2)

\* vec(a, b): the vector from b to a
vec(a, b) == [x |-> a.x - b.x, y |-> a.y - b.y]

\* the angle between two vectors; ok is FALSE when a norm is below eps, which
\* for integer coordinates is a zero vector
AngleBetween(v1, v2) ==
  IF (v1.x = 0 /\ v1.y = 0) \/ (v2.x = 0 /\ v2.y = 0)
    THEN [ok |-> FALSE, c |-> 0, s |-> 0]
    ELSE LET dot == v1.x * v2.x + v1.y * v2.y
             cross == v1.x * v2.y - v1.y * v2.x
             abs(n) == IF n < 0 THEN 0 - n ELSE n
             g == Gcd(abs(dot), abs(cross))
         IN [ok |-> TRUE, c |-> dot \div g, s |-> abs(cross) \div g]

\* angle_deg(a, j, b): the angle at j formed by a - j - b
angle_deg(a, j, b) == AngleBetween(vec(a, j), vec(b, j))

\* compute_derived(kpmap)
compute_derived(kpmap) ==
  LET ls == get_xy(kpmap, "left_shoulder")
      rs == get_xy(kpmap, "right_shoulder")
      lh == get_xy(kpmap, "left_hip")
      rh == get_xy(kpmap, "right_hip")
      nose == get_xy(kpmap, "nose")
      sc == IF ls.ok /\ rs.ok THEN midpoint(ls, rs) ELSE NoPoint
      hc == IF lh.ok /\ rh.ok THEN midpoint(lh, rh) ELSE NoPoint
  IN [shoulder_center |-> sc,
      hip_center |-> hc,
      neck |-> IF ls.ok /\ rs.ok /\ nose.ok THEN midpoint(midpoint(ls, rs), nose) ELSE NoPoint,
      torso_axis |-> IF sc.ok /\ hc.ok THEN Pt(sc.x - hc.x, sc.y - hc.y) ELSE NoPoint]

\* keypoint names of a side
SideName(side, part) == IF side = "left" THEN "left_" \o part ELSE "right_" \o part

\* the elbow, knee and hip angle of one side, and the neck angle
elbow_angle(kpmap, side) ==
  LET wrist == get_xy(kpmap, SideName(side, "wrist"))
      elbow == get_xy(kpmap, SideName(side, "elbow"))
      shoulder == get_xy(kpmap, SideName(side, "shoulder"))
  IN IF wrist.ok /\ elbow.ok /\ shoulder.ok
       THEN angle_deg(wrist, elbow, shoulder)
       ELSE [ok |-> FALSE, c |-> 0, s |-> 0]
knee_angle(kpmap, side) ==
  LET ankle == get_xy(kpmap, SideName(side, "ankle"))
      knee == get_xy(kpmap, SideName(side, "knee"))
      hip == get_xy(kpmap, SideName(side, "hip"))
  IN IF ankle.ok /\ knee.ok /\ hip.ok
       THEN angle_deg(ankle, knee, hip)
       ELSE [ok |-> FALSE, c |-> 0, s |-> 0]
hip_angle(kpmap, side) ==
  LET sc == compute_derived(kpmap).shoulder_center
      knee == get_xy(kpmap, SideName(side, "knee"))
      hip == get_xy(kpmap, SideName(side, "hip"))
  IN IF sc.ok /\ knee.ok /\ hip.ok
       THEN angle_deg(knee, hip, sc)
       ELSE [ok |-> FALSE, c |-> 0, s |-> 0]
neck_angle(kpmap) ==
  LET drv == compute_derived(kpmap)
      nose == get_xy(kpmap, "nose")
  IN IF drv.torso_axis.ok /\ drv.neck.ok /\ "nose" \in DOMAIN kpmap /\ nose.ok
       THEN AngleBetween(drv.torso_axis, vec(nose, drv.neck))
       ELSE [ok |-> FALSE, c |-> 0, s |-> 0]

AngleNames ==
  {"elbow_left", "elbow_right", "knee_left", "knee_right", "hip_left", "hip_right",
   "neck_flex"}

\* angles_of_interest(kpmap): the mapping holds the angles that were computed
angles_of_interest(kpmap) ==
  LET all == [n \in AngleNames |->
                CASE n = "elbow_left" -> elbow_angle(kpmap, "left")
                  [] n = "elbow_right" -> elbow_angle(kpmap, "right")
                  [] n = "knee_left" -> knee_angle(kpmap, "left")
                  [] n = "knee_right" -> knee_angle(kpmap, "right")
                  [] n = "hip_left" -> hip_angle(kpmap, "left")
                  [] n = "hip_right" -> hip_angle(kpmap, "right")
                  [] n = "neck_flex" -> neck_angle(kpmap)]
  IN [n \in {m \in AngleNames : all[m].ok} |-> [c |-> all[n].c, s |-> all[n].s]]

----------------------------------------------------------------------------
(* Template matcher (guide_match.py).  The template CSV of an activity is  *)
(* [exists, rows]: rows is the sequence of its rows [joint, value], joint  *)
(* a name or NoJoint (the row has no such column), value a number (finite  *)
(* or NaN), None (no such column) or Text (a cell that float() rejects).   *)
(* A reference series is a sequence of such numbers; reference and user    *)
(* angles are whole numbers of hundredths of a degree.  mean_abs_err is    *)
(* the exact ratio num / den, or NaN; phase_corr is in thousandths.        *)

NoJoint == "None"
Text == [k |-> "text", v |-> 0]

\* activities of TEMPLATE_RULES
TemplateKeys == {"squat", "arm_abduction", "forward_flexion", "calf_raise", "jumping_jack"}

\* buckets[jn] after the reader loop: the cells of joint jn that float() accepts
RECURSIVE Parsed(_, _)
Parsed(rows, jn) ==
  IF rows = <<>> THEN <<>>
  ELSE LET r == Head(rows)
           rest == Parsed(Tail(rows), jn)
       IN IF r.joint = jn /\ r.value.k \in {"fin", "nan"} THEN <<r.value>> \o rest ELSE rest

\* the joints that get a bucket: setdefault() runs before float() is tried
Bucketed(rows) ==
  {rows[i].joint : i \in {j \in DOMAIN rows : rows[j].joint # NoJoint /\ rows[j].value.k # "none"}}

\* load_template_for_activity(key)["series"], the CSV of the activity being file
load_template_for_activity(key, file) ==
  IF key \in TemplateKeys /\ file.exists
    THEN [jn \in Bucketed(file.rows) |-> Parsed(file.rows, jn)]
    ELSE <<>>

\* extract_scalar_window(series, t0, t1)
RECURSIVE extract_scalar_window(_, _, _)
extract_scalar_window(series, t0, t1) ==
  IF series = <<>> THEN <<>>
  ELSE LET e == Head(series)
           rest == extract_scalar_window(Tail(series), t0, t1)
       IN IF t0 <= e[1] /\ e[1] <= t1 THEN <<e>> \o rest ELSE rest

\* the preference order of _template_scalar_for
Candidates(key) ==
  CASE key = "squat" -> <<"knee_ANY_flex", "knee_L_flex", "knee_R_flex">>
    [] key = "arm_abduction" -> <<"shoulder_ANY_abd", "shoulder_L_abd", "shoulder_R_abd">>
    [] key = "forward_flexion" -> <<"shoulder_ANY_flex", "shoulder_L_flex", "shoulder_R_flex">>
    [] key = "calf_raise" -> <<"ankle_ANY_pf", "ankle_L_pf", "ankle_R_pf">>
    [] key = "jumping_jack" -> <<"shoulder_ANY_abd", "shoulder_L_abd", "shoulder_R_abd">>
    [] OTHER -> <<>>

\* sum of f[x] over the finite set S
RECURSIVE SumOver(_, _)
SumOver(S, f) ==
  IF S = {} THEN 0 ELSE LET x == CHOOSE y \in S : TRUE IN f[x] + SumOver(S \ {x}, f)

\* num / den rounded to the nearest whole number (num >= 0, den > 0)
RoundDiv(num, den) == (2 * num + den) \div (2 * den)

\* np.nanmean(np.stack(series.values()), axis=0) of series of one length n
NanMeanColumns(series, n) ==
  [i \in 1..n |->
     LET fin == {jn \in DOMAIN series : series[jn][i].k = "fin"} IN
     IF fin = {} THEN NaN
     ELSE Fin(RoundDiv(SumOver(fin, [jn \in fin |-> series[jn][i].v]), Cardinality(fin)))]

\* _template_scalar_for(key, tpl_series): an array, None, or the ValueError
\* np.stack raises for arrays of different lengths
template_scalar_for(key, series) ==
  LET cands == Candidates(key)
      found == {i \in DOMAIN cands : cands[i] \in DOMAIN series}
  IN IF found # {} THEN [kind |-> "array", a |-> series[cands[SetMin(found)]]]
     ELSE IF DOMAIN series = {} THEN [kind |-> "none", a |-> <<>>]
     ELSE IF \E j1 \in DOMAIN series, j2 \in DOMAIN series : Len(series[j1]) # Len(series[j2])
       THEN [kind |-> "raise", a |-> <<>>]
     ELSE LET any == CHOOSE jn \in DOMAIN series : TRUE
          IN [kind |-> "array", a |-> NanMeanColumns(series, Len(series[any]))]

\* np.asarray(ut, dtype=np.float32) of one timestamp
Float32(t) == RoundT(t)

\* ph_user and ph_tpl, both multiplied by (t1 - t0) * (n - 1) so that they are
\* whole numbers (n is the length of the reference; t1 > t0)
UserPhase(t, t0, n) == (Float32(t) - t0) * (IF n = 1 THEN 1 ELSE n - 1)
TplPhase(i, t0, t1, n) == IF n = 1 THEN 0 ELSE (i - 1) * (t1 - t0)

\* np.interp(x, xp, fp) for increasing xp
interp(x, xp, fp) ==
  LET m == Len(xp) IN
  IF x <= xp[1] THEN fp[1]
  ELSE IF x >= xp[m] THEN fp[m]
  ELSE LET j == CHOOSE i \in 1..(m - 1) : xp[i] <= x /\ x < xp[i + 1]
       IN fp[j] + ((fp[j + 1] - fp[j]) * (x - xp[j])) \div (xp[j + 1] - xp[j])

\* uv_on_tpl: the user's angles interpolated onto the phase grid of a reference
\* of length n
uv_on_tpl(user_series, t0, t1, n) ==
  LET xp == [j \in DOMAIN user_series |-> UserPhase(user_series[j][1], t0, n)]
      fp == [j \in DOMAIN user_series |-> user_series[j][2]]
  IN [i \in 1..n |-> Fin(interp(TplPhase(i, t0, t1, n), xp, fp))]

\* the largest r with r * r <= x, found by bisection of lo..hi
RECURSIVE IsqrtIn(_, _, _)
IsqrtIn(x, lo, hi) ==
  IF lo = hi THEN lo
  ELSE LET mid == (lo + hi + 1) \div 2
       IN IF mid * mid <= x THEN IsqrtIn(x, mid, hi) ELSE IsqrtIn(x, lo, mid - 1)
Isqrt(x) == IsqrtIn(x, 0, 46340)

\* the positions of the numbers of an array that are not NaN
FiniteAt(a) == {i \in DOMAIN a : a[i].k = "fin"}

\* _z(a) in thousandths; NaN entries stay NaN, and an array without a number
\* is all NaN.  With n numbers of sum s, n * (a[i] - mean) = n * a[i] - s and
\* n * std = sqrt(sum of the squares of these / n); the 1e-6 added to std is
\* below the grid
z(a) ==
  LET fin == FiniteAt(a)
      n == Cardinality(fin)
      s == SumOver(fin, [i \in fin |-> a[i].v])
      dev == [i \in fin |-> n * a[i].v - s]
      nstd == Isqrt(SumOver(fin, [i \in fin |-> dev[i] * dev[i]]) \div n)
  IN [i \in DOMAIN a |->
        IF a[i].k # "fin" THEN NaN
        ELSE IF nstd = 0 THEN Fin(0)
        ELSE Fin((1000 * dev[i]) \div nstd)]

\* np.nanmean(np.abs(a - b)) as a ratio
nanmean_abs_diff(a, b) ==
  LET both == FiniteAt(a) \cap FiniteAt(b)
      gap == [i \in both |-> IF a[i].v >= b[i].v THEN a[i].v - b[i].v ELSE b[i].v - a[i].v]
  IN IF both = {} THEN [k |-> "nan", num |-> 0, den |-> 1]
     ELSE [k |-> "fin", num |-> SumOver(both, gap), den |-> Cardinality(both)]

\* max(0.0, min(1.0, 1.0 - m)) in thousandths: min(1.0, nan) is 1.0, because
\* nan < 1.0 is False
clamped_pcorr(m) ==
  IF m.k = "nan" THEN 1000
  ELSE LET p == 1000 - (m.num \div m.den)
       IN IF p > 1000 THEN 1000 ELSE IF p < 0 THEN 0 ELSE p

\* the band of a mean absolute error: both comparisons with NaN are False
band_of(mae) ==
  IF mae.k = "fin" /\ mae.num <= 500 * mae.den THEN "Green"
  ELSE IF mae.k = "fin" /\ mae.num <= 1000 * mae.den THEN "Amber"
  ELSE "Red"

\* the result returned when data is insufficient
Degenerate ==
  [raised |-> FALSE, mean_abs_err |-> [k |-> "nan", num |-> 0, den |-> 1],
   phase_corr |-> 0, band |-> "Red"]

\* the band is Green whenever the error is a number (mae <= 5 replaced by True
\* for numbers)
guide_match_activity_window_AlwaysGreen(key, file, user_series, t0, t1) ==
  LET tpl_scalar == template_scalar_for(key, load_template_for_activity(key, file))
  IN IF tpl_scalar.kind = "raise"
       THEN [raised |-> TRUE, mean_abs_err |-> Degenerate.mean_abs_err,
             phase_corr |-> 0, band |-> ""]
     ELSE IF tpl_scalar.kind = "none" \/ Len(user_series) < 4 THEN Degenerate
     ELSE LET ref == tpl_scalar.a
              usr == uv_on_tpl(user_series, t0, t1, Len(ref))
              mae == nanmean_abs_diff(usr, ref)
          IN [raised |-> FALSE, mean_abs_err |-> mae,
              phase_corr |-> clamped_pcorr(nanmean_abs_diff(z(usr), z(ref))),
              band |-> IF mae.k = "fin" THEN "Green" ELSE "Red"]

\* guide_match_activity_window(key, user_series, t0, t1), the CSV of the
\* activity being file: the returned dict, or raised when an exception leaves
\* the call
guide_match_activity_window(key, file, user_series, t0, t1) ==
  LET tpl_scalar == template_scalar_for(key, load_template_for_activity(key, file))
  IN IF tpl_scalar.kind = "raise"
       THEN [raised |-> TRUE, mean_abs_err |-> Degenerate.mean_abs_err,
             phase_corr |-> 0, band |-> ""]
     ELSE IF tpl_scalar.kind = "none" \/ Len(user_series) < 4 THEN Degenerate
     ELSE LET ref == tpl_scalar.a
              usr == uv_on_tpl(user_series, t0, t1, Len(ref))
              mae == nanmean_abs_diff(usr, ref)
          IN [raised |-> FALSE, mean_abs_err |-> mae,
              phase_corr |-> clamped_pcorr(nanmean_abs_diff(z(usr), z(ref))),
              band |-> band_of(mae)]

----------------------------------------------------------------------------
(* form_stability (scorer.py).  The angles of the series are floats, held  *)
(* to TimeBits significant bits like the timestamps: np.std computes the   *)
(* mean as a rounded sum divided by the count, so the mean of equal values *)
(* need not be that value.  The result is in thousandths.                  *)

\* num / den (num >= 0, den > 0) rounded to the nearest representable number,
\* ties to even
RoundQ(num, den) ==
  LET u == Ulp(num \div den)
      q == num \div (den * u)
      r == num - q * den * u
  IN IF 2 * r < den * u THEN q * u
     ELSE IF 2 * r > den * u THEN (q + 1) * u
     ELSE IF q % 2 = 0 THEN q * u
     ELSE (q + 1) * u

\* the sum of an array, added up left to right, every partial sum rounded
RECURSIVE FloatSum(_, _)
FloatSum(q, acc) ==
  IF q = <<>> THEN acc ELSE FloatSum(Tail(q), RoundT(acc + Head(q)))

\* sqrt(x) rounded to the nearest representable number
FloatSqrt(x) ==
  LET r == Isqrt(x) IN RoundT(IF x - r * r > r THEN r + 1 ELSE r)

\* np.std(a): sqrt(mean(abs(a - mean(a)) ** 2))
FloatStd(a) ==
  LET n == Len(a)
      mean == RoundQ(FloatSum(a, 0), n)
      dev == [i \in 1..n |-> RoundT(IF a[i] >= mean THEN a[i] - mean ELSE mean - a[i])]
      sq == [i \in 1..n |-> RoundT(dev[i] * dev[i])]
  IN FloatSqrt(RoundQ(FloatSum(sq, 0), n))

\* [a for a in angle_series if a is not None and np.isfinite(a)]
RECURSIVE FiniteValues(_)
FiniteValues(series) ==
  IF series = <<>> THEN <<>>
  ELSE (IF Head(series).k = "fin" THEN <<Head(series).v>> ELSE <<>>)
         \o FiniteValues(Tail(series))

\* np.clip(1.0 - std_top / 15.0, 0.0, 1.0) in thousandths, for the top fifth
\* (at least one) of the finite values arr
StabilityOf(arr) ==
  LET k == Max2(1, Len(arr) \div 5)
      sorted == Ascending(arr)
      top == SubSeq(sorted, Len(arr) - k + 1, Len(arr))
      r == 1000 - RoundDiv(1000 * FloatStd(top), 1500)
  IN IF r < 0 THEN 0 ELSE r

\* the second length test (on the finite values) left out
form_stability_AnyFive(angle_series) ==
  IF Len(angle_series) < 5 THEN 0
  ELSE IF FiniteValues(angle_series) = <<>> THEN 0
  ELSE StabilityOf(FiniteValues(angle_series))

\* form_stability(angle_series)
form_stability(angle_series) ==
  IF Len(angle_series) < 5 THEN 0
  ELSE IF Len(FiniteValues(angle_series)) < 5 THEN 0
  ELSE StabilityOf(FiniteValues(angle_series))

----------------------------------------------------------------------------
(* MainWindow (ui/main_window.py): the pipeline, the logging session.      *)
(* w.logger is "none" or "open"; w.closes and w.finals count the           *)
(* logger.close() calls made on the logger of the latest session and how   *)
(* many of them passed final_scores; w.frame tells whether the latest      *)
(* frame of an active session was logged.                                  *)

\* the keys of ACTIVITY_LIBRARY
ActivityKeys == {"squat", "arm_abduction", "forward_flexion", "calf_raise", "jumping_jack"}

\* ACTIVITY_LIBRARY[key]["primary_joints"]
primary_joints(key) ==
  CASE key = "squat" -> {"knee_L_flex", "knee_R_flex", "hip_L_flex", "hip_R_flex",
                         "ankle_L_flex", "ankle_R_flex"}
    [] key = "arm_abduction" -> {"shoulder_L_abd", "shoulder_R_abd"}
    [] key = "forward_flexion" -> {"shoulder_L_flex", "shoulder_R_flex"}
    [] key = "calf_raise" -> {"ankle_L_flex", "ankle_R_flex"}
    [] key = "jumping_jack" -> {"shoulder_L_abd", "shoulder_R_abd", "hip_L_abd", "hip_R_abd"}

\* self._guided is None
NoTrial == [key |-> "", series_by_joint |-> <<>>, kp_snaps |-> <<>>, reps_done |-> 0]

\* the fields build_ui() sets, and nothing counted yet
NewWindow ==
  [thread_running |-> FALSE, worker |-> FALSE, btn_stop |-> FALSE,
   session_active |-> FALSE, logger |-> "none", guided |-> NoTrial,
   closed |-> FALSE, n_sessions |-> 0, closes |-> 0, finals |-> 0,
   frame |-> "none"]

\* self.logger.close(...); self.logger = None, when a logger is attached
close_logger(w, with_final) ==
  IF w.logger = "open"
    THEN [w EXCEPT !.logger = "none", !.closes = @ + 1,
                   !.finals = @ + (IF with_final THEN 1 ELSE 0)]
    ELSE w

\* on_session_start()
on_session_start(w) ==
  IF w.session_active THEN w
  ELSE [w EXCEPT !.logger = "open", !.session_active = TRUE,
                 !.n_sessions = @ + 1, !.closes = 0, !.finals = 0,
                 !.frame = "none"]

\* on_session_stop()
on_session_stop(w) ==
  IF ~w.session_active THEN w
  ELSE [close_logger(w, TRUE) EXCEPT !.session_active = FALSE]

\* on_start()
on_start(w) ==
  IF w.thread_running THEN w
  ELSE [w EXCEPT !.thread_running = TRUE, !.worker = TRUE, !.btn_stop = TRUE]

\* on_stop()
on_stop(w) ==
  [close_logger(w, FALSE) EXCEPT !.thread_running = FALSE, !.btn_stop = FALSE,
                                 !.guided = NoTrial]

\* on_camera_change(i)
on_camera_change(w) ==
  IF w.thread_running THEN on_start(on_stop(w)) ELSE w

\* on_error(msg)
on_error(w) == on_stop(w)

\* closeEvent(ev)
closeEvent(w) ==
  LET s == on_stop(w)
      c == IF s.session_active
             THEN [close_logger(s, TRUE) EXCEPT !.session_active = FALSE]
             ELSE s
  IN [c EXCEPT !.closed = TRUE]

\* on_start_trial that keeps the rep count and the buffers of a trial of the
\* same activity
on_start_trial_KeepsTrial(w, key) ==
  IF w.guided.key = key THEN w
  ELSE [w EXCEPT !.guided = [key |-> key,
                             series_by_joint |-> [j \in primary_joints(key) |-> <<>>],
                             kp_snaps |-> <<>>, reps_done |-> 0]]

\* on_start_trial(key): the self._guided it sets, but for the detector
on_start_trial(w, key) ==
  [w EXCEPT !.guided = [key |-> key,
                        series_by_joint |-> [j \in primary_joints(key) |-> <<>>],
                        kp_snaps |-> <<>>, reps_done |-> 0]]

\* overlay_guided_flow on one frame of a running trial: the frame's angle is
\* appended to the series of every primary joint and its keypoints to the
\* snapshot buffer (at most 400 are kept); a rep that the detector reports and
\* the assessor counts adds one to reps_done
guided_frame(w, t, a, counted) ==
  LET g == w.guided
  IN [w EXCEPT !.guided =
        [g EXCEPT !.series_by_joint = [j \in DOMAIN @ |-> Append(@[j], <<t, a>>)],
                  !.kp_snaps = IF Len(@) < 400 THEN Append(@, t)
                               ELSE Append(Tail(@), t),
                  !.reps_done = @ + (IF counted THEN 1 ELSE 0)]]

\* the logging of on_frame(frame_bgr, info)
on_frame(w) ==
  IF w.session_active
    THEN [w EXCEPT !.frame = IF w.logger = "open" THEN "logged" ELSE "dropped"]
    ELSE w

----------------------------------------------------------------------------
(* VideoWorker (camera/video_worker.py).  _loop() runs in the worker's       *)
(* thread; the GUI thread calls stop() and set_backend() on the same object *)
(* without a lock, so the statements of the two interleave.  self.cap is    *)
(* "obj" or "none" and cap_open tells whether the capture object is still   *)
(* open; self.backend is 0 for None or the number of a backend object.      *)

\* the worker as start() leaves it on entering _loop(): capture opened,
\* backend initialised, running set; the GUI thread is making no call on it
NewWorker ==
  [running |-> TRUE, cap |-> "obj", cap_open |-> TRUE, backend |-> 1, made |-> 1,
   pc |-> "check", loc_backend |-> 0, gui |-> "idle", stopped |-> FALSE,
   switches |-> 0, read_released |-> FALSE, infer_gone |-> FALSE, errors |-> 0,
   frames |-> 0]

\* an error signal is emitted and _loop() is left (by return, by break, or by
\* an exception that start() catches)
loop_error(w) == [w EXCEPT !.pc = "done", !.errors = @ + 1]

\* the next step of _loop() in the worker's thread
loop_step(w) ==
  CASE w.pc = "check" ->
         \* if self.cap is None or not self.cap.isOpened(): error; return
         IF w.cap = "none" \/ ~w.cap_open THEN loop_error(w)
         ELSE [w EXCEPT !.pc = "while"]
    [] w.pc = "while" ->
         \* while self.running
         [w EXCEPT !.pc = IF w.running THEN "read" ELSE "done"]
    [] w.pc = "read" ->
         \* ok, frame = self.cap.read(): None has no read (AttributeError), a
         \* released capture returns ok False ("Camera read failed."; break)
         IF w.cap = "none" THEN loop_error(w)
         ELSE IF ~w.cap_open THEN [loop_error(w) EXCEPT !.read_released = TRUE]
         ELSE [w EXCEPT !.pc = "test_backend"]
    [] w.pc = "test_backend" ->
         \* ... if self.backend else ([], {})
         [w EXCEPT !.pc = IF w.backend # 0 THEN "load_backend" ELSE "emit"]
    [] w.pc = "load_backend" ->
         \* self.backend.infer: None has no infer (AttributeError)
         IF w.backend = 0 THEN [loop_error(w) EXCEPT !.infer_gone = TRUE]
         ELSE [w EXCEPT !.pc = "infer", !.loc_backend = w.backend]
    [] w.pc = "infer" ->
         \* infer(frame) on the object that was loaded
         [w EXCEPT !.pc = "emit", !.loc_backend = 0]
    [] w.pc = "emit" ->
         \* self.frame_ready.emit(...)
         [w EXCEPT !.pc = "while", !.frames = 1]
    [] OTHER -> w

\* the next statement of stop() in the GUI thread
stop_step(w) ==
  CASE w.gui = "idle" ->
         \* self.running = False
         [w EXCEPT !.running = FALSE, !.gui = "stop_close"]
    [] w.gui = "stop_close" ->
         \* if self.backend: self.backend.close()
         [w EXCEPT !.gui = "stop_backend"]
    [] w.gui = "stop_backend" ->
         \* self.backend = None
         [w EXCEPT !.backend = 0, !.gui = "stop_release"]
    [] w.gui = "stop_release" ->
         \* if self.cap: self.cap.release()
         [w EXCEPT !.cap_open = IF w.cap = "obj" THEN FALSE ELSE @,
                   !.gui = IF w.cap = "obj" THEN "stop_cap" ELSE "idle",
                   !.stopped = (w.cap # "obj")]
    [] w.gui = "stop_cap" ->
         \* self.cap = None
         [w EXCEPT !.cap = "none", !.gui = "idle", !.stopped = TRUE]
    [] OTHER -> w

\* the next statement of set_backend(choice) in the GUI thread
set_backend_step(w) ==
  CASE w.gui = "idle" ->
         \* self.choice = choice; if self.backend: close()
         [w EXCEPT !.switches = @ + 1,
                   !.gui = IF w.backend # 0 THEN "switch_none" ELSE "switch_init"]
    [] w.gui = "switch_none" ->
         \* self.backend = None
         [w EXCEPT !.backend = 0, !.gui = "switch_init"]
    [] w.gui = "switch_init" ->
         \* self._init_backend(choice)
         [w EXCEPT !.backend = w.made + 1, !.made = @ + 1, !.gui = "idle"]
    [] OTHER -> w

----------------------------------------------------------------------------
(* GaitTracker (gait/metrics.py).  Ankle heights are Python floats, None   *)
(* being stored as NaN; a step event is [t, y, n]: the tuple (t_mid, b) of *)
(* the code and, for the properties, the number n of the sample it is.     *)
(* cadence_spm is in hundredths of a step per minute, the symmetry index   *)
(* in hundredths of a percent.  The hip-width deque is never read and is   *)
(* left out.                                                               *)

\* the default of the constructor's min_event_separation_s
min_event_separation_s == 25

\* maxlen of the history deques (max_hist of the constructor, 300 by default)
MaxHist == 4

\* GaitTracker(): the fields after __init__, and n, the number of update() calls
NewTracker ==
  [t |-> <<>>, ankleL_y |-> <<>>, ankleR_y |-> <<>>, events_L |-> <<>>, events_R |-> <<>>,
   cadence_spm |-> 0, step_time_L |-> None, step_time_R |-> None, si |-> None, n |-> 0]

\* deque.append(x) on a deque of maxlen MaxHist
DequeAppend(q, x) == IF Len(q) = MaxHist THEN Tail(q) \o <<x>> ELSE Append(q, x)

\* y if y is not None else np.nan
OrNaN(y) == IF y.k = "none" THEN NaN ELSE y

\* (t_mid - ev[-1][0]) >= min_event_separation_s
Separated(t_mid, t_prev) ==
  t_mid >= t_prev /\ TSub(t_mid, t_prev) >= min_event_separation_s

\* the refractory check dropped: every local minimum is recorded
detect_side_NoRefractory(y_deque, ts, ev, n) ==
  LET m == Len(y_deque) IN
  IF m < 3 THEN ev
  ELSE LET a == y_deque[m - 2]
           b == y_deque[m - 1]
           c == y_deque[m]
       IN IF a.k = "fin" /\ b.k = "fin" /\ c.k = "fin" /\ b.v < a.v /\ b.v < c.v
            THEN Append(ev, [t |-> ts[m - 1], y |-> b.v, n |-> n - 1])
            ELSE ev

\* one pass of the loop of _detect_events: the events of a side after the
\* latest sample, n being its number
detect_side(y_deque, ts, ev, n) ==
  LET m == Len(y_deque) IN
  IF m < 3 THEN ev
  ELSE LET a == y_deque[m - 2]
           b == y_deque[m - 1]
           c == y_deque[m]
           t_mid == ts[m - 1]
       IN IF a.k = "fin" /\ b.k = "fin" /\ c.k = "fin" /\ b.v < a.v /\ b.v < c.v
             /\ (ev = <<>> \/ Separated(t_mid, ev[Len(ev)].t))
            THEN Append(ev, [t |-> t_mid, y |-> b.v, n |-> n - 1])
            ELSE ev

\* _detect_events
detect_events(g) ==
  [g EXCEPT !.events_L = detect_side(g.ankleL_y, g.t, g.events_L, g.n),
            !.events_R = detect_side(g.ankleR_y, g.t, g.events_R, g.n)]

\* step_time(ev): the time between the last two events
step_time(ev) ==
  IF Len(ev) >= 2 THEN Fin(TSub(ev[Len(ev)].t, ev[Len(ev) - 1].t)) ELSE None

\* si is 0.0 instead of None when a step time is missing
recompute_metrics_ZeroForMissing(g) ==
  LET stL == step_time(g.events_L)
      stR == step_time(g.events_R)
      okL == stL.k = "fin" /\ stL.v > 0
      okR == stR.k = "fin" /\ stR.v > 0
  IN [g EXCEPT
        !.step_time_L = stL,
        !.step_time_R = stR,
        !.cadence_spm = IF okL /\ okR THEN (600000 * 2) \div (stL.v + stR.v)
                        ELSE IF okL THEN 600000 \div stL.v
                        ELSE IF okR THEN 600000 \div stR.v
                        ELSE 0,
        !.si = IF stL.k = "fin" /\ stR.k = "fin" /\ stL.v > 0 /\ stR.v > 0
                 THEN Fin((20000 * FAbs(FSub(stL, stR)).v) \div (stL.v + stR.v))
                 ELSE Fin(0)]

\* _recompute_metrics: cadence 60 / mean(step times), si
\* 100 * |stL - stR| / (0.5 * (stL + stR) + 1e-6), both rounded down to the grid
recompute_metrics(g) ==
  LET stL == step_time(g.events_L)
      stR == step_time(g.events_R)
      okL == stL.k = "fin" /\ stL.v > 0
      okR == stR.k = "fin" /\ stR.v > 0
  IN [g EXCEPT
        !.step_time_L = stL,
        !.step_time_R = stR,
        !.cadence_spm = IF okL /\ okR THEN (600000 * 2) \div (stL.v + stR.v)
                        ELSE IF okL THEN 600000 \div stL.v
                        ELSE IF okR THEN 600000 \div stR.v
                        ELSE 0,
        !.si = IF stL.k = "fin" /\ stR.k = "fin" /\ stL.v > 0 /\ stR.v > 0
                 THEN Fin((20000 * FAbs(FSub(stL, stR)).v) \div (stL.v + stR.v))
                 ELSE None]

\* GaitTracker.update(t, ankleL_y, ankleR_y)
gait_update(g, t, ankleL_y, ankleR_y) ==
  recompute_metrics(detect_events(
    [g EXCEPT !.t = DequeAppend(g.t, t),
              !.ankleL_y = DequeAppend(g.ankleL_y, OrNaN(ankleL_y)),
              !.ankleR_y = DequeAppend(g.ankleR_y, OrNaN(ankleR_y)),
              !.n = g.n + 1]))

\* GaitTracker.metrics()
metrics(g) ==
  [cadence_spm |-> g.cadence_spm, step_time_L |-> g.step_time_L,
   step_time_R |-> g.step_time_R, symmetry_index |-> g.si]

----------------------------------------------------------------------------
(* State.                                                                  *)

VARIABLES
  state,          \* RepCycleDetector.state
  baseline,       \* RepCycleDetector.baseline
  last_t,         \* RepCycleDetector._last_t
  t_cycle_start,  \* RepCycleDetector._t_cycle_start
  t_above_start,  \* RepCycleDetector._t_above_start
  now,            \* timestamp of the latest update() call
  op,             \* the latest operation: "init", "update" or "reset"
  in_a,           \* the sample passed to the latest update() call
  ret,            \* the value the latest update() call returned
  n_calls,        \* number of update() calls so far
  prev_state,     \* RepCycleDetector.state when the latest operation began
  all_finite,     \* every sample of the stream so far was a finite number
  timed_out,      \* the latest update() call ended in the safety timeout
  go_up_t,        \* timestamp of the latest AT_BASELINE -> GOING_UP sample
  last_above_t,   \* timestamp of the latest sample with excursion >= up_thresh
  run_start,      \* first timestamp of the current unbroken run of such samples
  sig,            \* the synthetic one-cycle signal being fed, and what it has seen
  rule_in,        \* two argument lists (a and b) of assess_activity_rep
  rule_out,       \* the RepAssessment returned for each of them
  kpmap,          \* the keypoint map of the current frame
  ang,            \* what angles_of_interest returned for it
  fcall,          \* a call of a scoring or matching function: arguments and result
  gait,           \* the GaitTracker, and the samples it was fed
  win,            \* the MainWindow: pipeline, logging session, guided trial
  vw              \* the VideoWorker, its loop and the call the GUI thread makes on it

detVars == <<state, baseline, last_t, t_cycle_start, t_above_start>>
histVars == <<now, op, in_a, ret, n_calls, prev_state, all_finite, timed_out, go_up_t, last_above_t, run_start>>
ruleVars == <<rule_in, rule_out>>
angVars == <<kpmap, ang>>
libVars == <<fcall, gait>>
appVars == <<win, vw>>
vars == <<detVars, histVars, sig, ruleVars, angVars, libVars, appVars>>

\* the detector object
self == [state |-> state, baseline |-> baseline, last_t |-> last_t,
         t_cycle_start |-> t_cycle_start, t_above_start |-> t_above_start]

\* the detector's fields become those of record d
SetDetector(d) ==
  /\ state' = d.state
  /\ baseline' = d.baseline
  /\ last_t' = d.last_t
  /\ t_cycle_start' = d.t_cycle_start
  /\ t_above_start' = d.t_above_start

\* the signal at rest (10 deg), part of the way up (20 deg) and at its peak (40 deg)
AngleB == Fin(10 * 100)
AngleLow == Fin(20 * 100)
AngleHi == Fin(40 * 100)

\* finite samples, and absent or non-finite ones
FiniteSamples == {AngleB, AngleLow, AngleHi}
BadSamples == {None, NaN, PInf, NInf}

\* gaps between consecutive timestamps: 0.04 s and 2.88 s
Dts == {4, 288}

\* the clock reads 0.01 s when the trial starts
ClockStarts == {1}

\* the timestamp of the frame that comes dt after the latest one
Tick(dt) == RoundT(now + dt)

\* no synthetic signal: the stream is arbitrary
NoSignal ==
  [phase |-> "free", n_rest |-> 0, n_hi |-> 0, n_down |-> 0, t_rise |-> NoT,
   t_hi2 |-> NoT, t_hi_last |-> NoT, t_back1 |-> NoT, t_back_gd |-> NoT,
   n_events |-> 0, ev_t1 |-> NoT, bad_used |-> FALSE, bad_k |-> "fin"]

\* a new detector, before any sample
InitDetector ==
  /\ state = reset.state
  /\ baseline = reset.baseline
  /\ last_t = reset.last_t
  /\ t_cycle_start = reset.t_cycle_start
  /\ t_above_start = reset.t_above_start
  /\ now \in ClockStarts
  /\ op = "init"
  /\ in_a = None
  /\ ret = NoEvent
  /\ n_calls = 0
  /\ prev_state = "INIT"
  /\ all_finite = TRUE
  /\ timed_out = FALSE
  /\ go_up_t = NoT
  /\ last_above_t = NoT
  /\ run_start = NoT

\* no rep is being assessed
NoAssessment == [counted |-> FALSE, message |-> <<>>, bands |-> <<>>]
NoRuleInput ==
  [key |-> "", t0 |-> 0, t1 |-> 0, targets |-> <<>>,
   series_a |-> <<>>, snaps_a |-> <<>>, series_b |-> <<>>, snaps_b |-> <<>>]
NoRuleOutput == [done |-> FALSE, a |-> NoAssessment, b |-> NoAssessment]

\* no frame has been measured
NoAngles == [done |-> FALSE, out |-> <<>>]
NoFrame == kpmap = <<>> /\ ang = NoAngles

\* no scoring or matching function is being called
NoCall == [fn |-> "", args |-> <<>>, done |-> FALSE, out |-> <<>>]

\* no gait sample has been fed
NoGait == [g |-> NewTracker, fed |-> <<>>]

\* the application has just been opened: no pipeline, no session, no trial
NoApp == win = NewWindow /\ vw = NewWorker

\* RepCycleDetector() constructed by on_start_trial, fed an arbitrary stream
Init ==
  /\ InitDetector
  /\ sig = NoSignal
  /\ rule_in = NoRuleInput
  /\ rule_out = NoRuleOutput
  /\ NoFrame
  /\ fcall = NoCall
  /\ gait = NoGait
  /\ NoApp

\* one update(t, a) call on the detector, and the bookkeeping of the stream
FeedDet(t, a) ==
  LET r == update(self, t, a)
      above == ~IsSkipped(a) /\ FGe(FSub(a, r.d.baseline), up_thresh)
  IN /\ SetDetector(r.d)
     /\ now' = t
     /\ op' = "update"
     /\ in_a' = a
     /\ ret' = r.ret
     /\ n_calls' = n_calls + 1
     /\ prev_state' = state
     /\ all_finite' = (all_finite /\ ~IsBad(a))
     /\ timed_out' = r.timeout
     /\ go_up_t' = IF state = "AT_BASELINE" /\ r.d.state = "GOING_UP" THEN t ELSE go_up_t
     /\ last_above_t' = IF above THEN t ELSE last_above_t
     /\ run_start' = IF IsSkipped(a) THEN run_start
                     ELSE IF above THEN (IF run_start = NoT THEN t ELSE run_start)
                     ELSE NoT

\* one update(t, a) call, nothing but the detector involved
FeedAt(t, a) == FeedDet(t, a) /\ UNCHANGED <<ruleVars, angVars, libVars, appVars>>

\* one update(t, a) call on the next frame, later than the last one
Feed(t, a) == t > now /\ FeedAt(t, a)

\* update() on the next frame of an arbitrary stream
CallUpdate ==
  /\ n_calls < MaxSamples
  /\ \E dt \in Dts, a \in FiniteSamples \cup BadSamples : Feed(Tick(dt), a)
  /\ UNCHANGED sig

\* reset()
CallReset ==
  /\ op = "update"
  /\ SetDetector(reset)
  /\ op' = "reset"
  /\ prev_state' = state
  /\ ret' = NoEvent
  /\ timed_out' = FALSE
  /\ run_start' = NoT
  /\ UNCHANGED <<now, in_a, n_calls, all_finite, go_up_t, last_above_t, sig, ruleVars, angVars, libVars, appVars>>

Next == CallUpdate \/ CallReset

Spec == Init /\ [][Next]_vars

----------------------------------------------------------------------------
(* A synthetic one-cycle signal: it rests at AngleB, steps up to AngleHi   *)
(* (30 deg above), holds, and returns to AngleB, directly or through one   *)
(* sample at AngleLow.  At most one absent or non-finite sample may        *)
(* interrupt it early on; the signal then starts over from rest.           *)

\* samples at rest, at the peak and on the way down
MaxRest == 2
MaxHold == 6
MaxDown == 3

\* the bad sample comes within the first MaxPrefix samples, and the signal
\* that follows it holds for at most MaxRecoveryHold samples
MaxPrefix == 4
MaxRecoveryHold == 3

SigMaxHold == IF sig.bad_used THEN MaxRecoveryHold ELSE MaxHold

\* gaps between timestamps: 0.04 s at rest and on the way up and down,
\* 0.04 s or 3.04 s at the peak, 0.04 s or 0.40 s back at rest
StepDts == {4}
HoldDts == {4, 304}
BackDts == {4, 40}

InitCycle ==
  /\ InitDetector
  /\ sig = [NoSignal EXCEPT !.phase = "rest"]
  /\ rule_in = NoRuleInput
  /\ rule_out = NoRuleOutput
  /\ NoFrame
  /\ fcall = NoCall
  /\ gait = NoGait
  /\ NoApp

\* the events returned so far, counting the one of the call just made
CountEvent(s) ==
  [s EXCEPT !.n_events = s.n_events + (IF ret'.ev THEN 1 ELSE 0),
            !.ev_t1 = IF ret'.ev THEN ret'.t1 ELSE s.ev_t1]

\* a sample of the signal at rest
Rest ==
  /\ sig.phase = "rest"
  /\ sig.n_rest < MaxRest
  /\ \E dt \in StepDts : Feed(Tick(dt), AngleB)
  /\ sig' = CountEvent([sig EXCEPT !.n_rest = sig.n_rest + 1])

\* the first sample at the peak
Rise ==
  /\ sig.phase = "rest"
  /\ sig.n_rest >= 1
  /\ \E dt \in StepDts : Feed(Tick(dt), AngleHi)
  /\ sig' = [sig EXCEPT !.phase = "hold", !.n_hi = 1, !.t_rise = now',
                        !.t_hi_last = now', !.n_events = 0, !.ev_t1 = NoT]

\* a further sample at the peak
Hold ==
  /\ sig.phase = "hold"
  /\ sig.n_hi < SigMaxHold
  /\ \E dt \in HoldDts : Feed(Tick(dt), AngleHi)
  /\ sig' = CountEvent([sig EXCEPT !.n_hi = sig.n_hi + 1,
                                   !.t_hi2 = IF sig.n_hi = 1 THEN now' ELSE sig.t_hi2,
                                   !.t_hi_last = now'])

\* the first sample of the descent: part of the way down, or back at rest
Descend ==
  /\ sig.phase = "hold"
  /\ \E dt \in StepDts, a \in {AngleLow, AngleB} :
       /\ Feed(Tick(dt), a)
       /\ sig' = CountEvent([sig EXCEPT !.phase = "down", !.n_down = 1,
                                        !.t_back1 = IF a = AngleB THEN now' ELSE NoT])

\* a further sample of the descent, back at rest
Back ==
  /\ sig.phase = "down"
  /\ sig.n_down < MaxDown
  /\ \E dt \in BackDts : Feed(Tick(dt), AngleB)
  /\ sig' = CountEvent([sig EXCEPT !.n_down = sig.n_down + 1,
                                   !.t_back1 = IF sig.t_back1 = NoT THEN now' ELSE sig.t_back1,
                                   !.t_back_gd = IF sig.t_back_gd = NoT THEN now' ELSE sig.t_back_gd])

\* the stream ends, two or more samples into the descent
Finish ==
  /\ sig.phase = "down"
  /\ sig.n_down >= 2
  /\ sig' = [sig EXCEPT !.phase = "done"]
  /\ UNCHANGED <<detVars, histVars, ruleVars, angVars, libVars, appVars>>

\* one absent or non-finite sample; the signal starts over from rest
Inject ==
  /\ sig.phase \in {"rest", "hold", "down"}
  /\ ~sig.bad_used
  /\ n_calls <= MaxPrefix
  /\ \E dt \in StepDts, a \in BadSamples : Feed(Tick(dt), a)
  /\ sig' = [NoSignal EXCEPT !.phase = "rest", !.bad_used = TRUE, !.bad_k = in_a'.k]

NextCycle == Rest \/ Rise \/ Hold \/ Descend \/ Back \/ Finish \/ Inject

SpecCycle == InitCycle /\ [][NextCycle]_vars

----------------------------------------------------------------------------
(* Two reps in a row on one detector: a square wave between rest and peak, *)
(* with timestamps that never decrease but may repeat.                     *)

\* the angles of the stream, in order
RepPattern ==
  << AngleB, AngleHi, AngleHi, AngleHi, AngleB, AngleB,
     AngleHi, AngleHi, AngleHi, AngleB, AngleB >>

\* gaps between timestamps: none, 0.48 s or 2.88 s
RepDts == {0, 48, 288}

InitReps ==
  /\ InitDetector
  /\ sig = [NoSignal EXCEPT !.phase = "stream"]
  /\ rule_in = NoRuleInput
  /\ rule_out = NoRuleOutput
  /\ NoFrame
  /\ fcall = NoCall
  /\ gait = NoGait
  /\ NoApp

\* update() on the next sample of the stream; sig counts the events and keeps
\* the t1 of the last one
RepUpdate ==
  /\ n_calls < Len(RepPattern)
  /\ \E dt \in RepDts : FeedAt(Tick(dt), RepPattern[n_calls + 1])
  /\ sig' = CountEvent(sig)

NextReps == RepUpdate

SpecReps == InitReps /\ [][NextReps]_vars

----------------------------------------------------------------------------
(* One rep assessed twice: the two argument lists share the key, the       *)
(* targets, the window and every series entry and snapshot inside the      *)
(* window; the second may hold one more entry and one more snapshot, both  *)
(* timestamped after the window.                                           *)

\* the rep window, and the timestamps of the frames inside and after it
InWindowTimes == <<10, 15, 20>>
WinT0 == InWindowTimes[1]
WinT1 == InWindowTimes[3]
LateTime == WinT1 + 5

\* activity keys: two that have an assessor and one that has none
RuleKeys == {"squat", "arm_abduction", "plank"}

\* the joint whose series drives the activity's score
PrimaryJoint(key) == IF key = "squat" THEN "knee_L_flex" ELSE "shoulder_L_abd"

\* peak angles: far from, near and at the 90 degree target
PeakAngles == {5000, 8200, 9000}

\* keypoint maps: upright, lowered with the wrists crossed, wrists at low
\* confidence, and nothing detected
Point(x, y, conf) == [x |-> x, y |-> y, conf |-> conf]
PoseUpright ==
  [n \in {"left_hip", "right_hip", "left_wrist", "right_wrist"} |->
     CASE n = "left_hip" -> Point(450, 500, 900)
       [] n = "right_hip" -> Point(550, 500, 900)
       [] n = "left_wrist" -> Point(300, 600, 900)
       [] n = "right_wrist" -> Point(700, 600, 900)]
PoseLowered ==
  [n \in {"left_hip", "right_hip", "left_wrist", "right_wrist"} |->
     CASE n = "left_hip" -> Point(450, 540, 900)
       [] n = "right_hip" -> Point(550, 540, 900)
       [] n = "left_wrist" -> Point(600, 300, 900)
       [] n = "right_wrist" -> Point(400, 300, 900)]
PoseFaint ==
  [n \in {"left_wrist", "right_wrist"} |->
     CASE n = "left_wrist" -> Point(600, 300, 200)
       [] n = "right_wrist" -> Point(400, 300, 900)]
PoseEmpty == <<>>
Poses == {PoseUpright, PoseLowered, PoseFaint, PoseEmpty}

\* the series and the snapshots of one argument list: the shared in-window
\* part, then the entries after the window (sequences of length 0 or 1)
SeriesOf(key, peak, late) ==
  [j \in {PrimaryJoint(key)} |->
     <<<<InWindowTimes[1], 1000>>, <<InWindowTimes[2], peak>>,
       <<InWindowTimes[3], 1000>>>> \o late]
SnapsOf(poses, late) ==
  [i \in 1..3 |-> <<InWindowTimes[i], poses[i]>>] \o late

LateEntries == {<<>>} \cup {<<<<LateTime, v>>>> : v \in PeakAngles}
LateSnaps == {<<>>} \cup {<<<<LateTime, kp>>>> : kp \in Poses}

InitRules ==
  /\ InitDetector
  /\ sig = NoSignal
  /\ rule_out = NoRuleOutput
  /\ NoFrame
  /\ fcall = NoCall
  /\ gait = NoGait
  /\ NoApp
  /\ \E key \in RuleKeys, peak \in PeakAngles, poses \in [1..3 -> Poses],
        eb \in LateEntries, sb \in LateSnaps :
       rule_in = [key |-> key, t0 |-> WinT0, t1 |-> WinT1,
                  targets |-> LibraryTargets(key),
                  series_a |-> SeriesOf(key, peak, <<>>), snaps_a |-> SnapsOf(poses, <<>>),
                  series_b |-> SeriesOf(key, peak, eb), snaps_b |-> SnapsOf(poses, sb)]

\* assess_activity_rep on both argument lists
Assess ==
  /\ ~rule_out.done
  /\ rule_in.key # ""
  /\ rule_out' =
       [done |-> TRUE,
        a |-> assess_activity_rep(rule_in.key, rule_in.series_a, rule_in.t0,
                                  rule_in.t1, rule_in.snaps_a, rule_in.targets),
        b |-> assess_activity_rep(rule_in.key, rule_in.series_b, rule_in.t0,
                                  rule_in.t1, rule_in.snaps_b, rule_in.targets)]
  /\ UNCHANGED <<detVars, histVars, sig, rule_in, angVars, libVars, appVars>>

NextRules == Assess

SpecRules == InitRules /\ [][NextRules]_vars

----------------------------------------------------------------------------
(* One rep of any activity assessed on arbitrary arguments.  The second    *)
(* argument list is the first with every keypoint of confidence below 0.3  *)
(* removed from its snapshots.                                             *)

\* activity keys: the five that have an assessor and two that have none
AssessKeys == AssessorKeys \cup {"plank", "Squat"}

\* the left and right joint whose series the activity's assessor scores
SideJoint(key, side) ==
  CASE key = "arm_abduction" -> IF side = "L" THEN "shoulder_L_abd" ELSE "shoulder_R_abd"
    [] key = "forward_flexion" -> IF side = "L" THEN "shoulder_L_flex" ELSE "shoulder_R_flex"
    [] key = "calf_raise" -> IF side = "L" THEN "ankle_L_pf" ELSE "ankle_R_pf"
    [] OTHER -> IF side = "L" THEN "knee_L_flex" ELSE "knee_R_flex"

\* peak angles of the scored joint: far from, near and at a target
PeaksOf(key) ==
  CASE key = "arm_abduction" -> {5000, 9000, 17800}
    [] key = "calf_raise" -> {2500, 3200, 9000}
    [] OTHER -> {5000, 9000, 10000}

\* which sides' series hold samples
Populated == {"L", "R", "LR", "none"}
HoldsData(pop, side) == pop = "LR" \/ pop = side

\* series_by_joint for a one-joint-per-side activity: the populated sides
\* rise from 10 degrees to the peak and back inside the window; allKeys says
\* whether the unpopulated sides are present as empty lists
SideSeries(key, pop, allKeys, peak) ==
  LET rep == <<<<InWindowTimes[1], 1000>>, <<InWindowTimes[2], peak>>,
               <<InWindowTimes[3], 1000>>>>
      sides == {sd \in {"L", "R"} : allKeys \/ HoldsData(pop, sd)}
      sideOf(j) == CHOOSE sd \in sides : SideJoint(key, sd) = j
  IN [j \in {SideJoint(key, sd) : sd \in sides} |->
        IF HoldsData(pop, sideOf(j)) THEN rep ELSE <<>>]

\* keypoint maps with hips, wrists and ankles.  Standing: hips at y = 0.50,
\* hip width 0.10, wrists apart, ankles at y = 0.90.
BodyNames ==
  {"left_hip", "right_hip", "left_wrist", "right_wrist", "left_ankle", "right_ankle"}
BodyStanding ==
  [n \in BodyNames |->
     CASE n = "left_hip" -> Point(450, 500, 900)
       [] n = "right_hip" -> Point(550, 500, 900)
       [] n = "left_wrist" -> Point(300, 600, 900)
       [] n = "right_wrist" -> Point(700, 600, 900)
       [] n = "left_ankle" -> Point(450, 900, 900)
       [] n = "right_ankle" -> Point(550, 900, 900)]
\* hips 0.04 lower, wrists crossed, left wrist at the left ankle, left ankle
\* 0.01 higher
BodyDeep ==
  [n \in BodyNames |->
     CASE n = "left_hip" -> Point(450, 540, 900)
       [] n = "right_hip" -> Point(550, 540, 900)
       [] n = "left_wrist" -> Point(480, 860, 900)
       [] n = "right_wrist" -> Point(460, 860, 900)
       [] n = "left_ankle" -> Point(450, 890, 900)
       [] n = "right_ankle" -> Point(550, 900, 900)]
\* hips 0.02 lower, wrists apart and away from the feet, left ankle 0.003 higher
BodySlight ==
  [n \in BodyNames |->
     CASE n = "left_hip" -> Point(450, 520, 900)
       [] n = "right_hip" -> Point(550, 520, 900)
       [] n = "left_wrist" -> Point(350, 600, 900)
       [] n = "right_wrist" -> Point(650, 600, 900)
       [] n = "left_ankle" -> Point(450, 897, 900)
       [] n = "right_ankle" -> Point(550, 900, 900)]
\* BodyDeep with the hips, the left wrist and the left ankle at confidence 0.2
BodyFaint ==
  [n \in BodyNames |->
     IF n \in {"left_hip", "right_hip", "left_wrist", "left_ankle"}
       THEN Point(BodyDeep[n].x, BodyDeep[n].y, 200)
       ELSE BodyDeep[n]]
Bodies == {BodyStanding, BodyDeep, BodySlight, BodyFaint, PoseEmpty}

\* the number of snapshots in the window
SnapCounts == {2, 3}

\* snapshots at the first frames of the window
BodySnaps(poses) == [i \in 1..Len(poses) |-> <<InWindowTimes[i], poses[i]>>]

\* a keypoint map without its keypoints of confidence below 0.3
Confident(kp) == [n \in {m \in DOMAIN kp : kp[m].conf >= 300} |-> kp[n]]
ConfidentSnaps(snaps) == [i \in 1..Len(snaps) |-> <<snaps[i][1], Confident(snaps[i][2])>>]

\* jumping-jack trajectories of one arm and one leg: three samples, or four
\* equally spaced ones that stay flat, open and close, or close and open
JackTimes == <<11, 14, 17, 20>>
JackShapes == {"short", "flat", "open_close", "close_open", "low"}
JackTrack(shape, lo, hi) ==
  CASE shape = "short" ->
         <<<<InWindowTimes[1], lo>>, <<InWindowTimes[2], hi>>, <<InWindowTimes[3], lo>>>>
    [] shape = "flat" -> [i \in 1..4 |-> <<JackTimes[i], hi>>]
    [] shape = "low" -> [i \in 1..4 |-> <<JackTimes[i], lo>>]
    [] shape = "open_close" ->
         [i \in 1..4 |-> <<JackTimes[i], IF i \in {2, 3} THEN hi ELSE lo>>]
    [] shape = "close_open" ->
         [i \in 1..4 |-> <<JackTimes[i], IF i \in {2, 3} THEN lo ELSE hi>>]
JackSeries(arm, leg) ==
  [j \in {"shoulder_L_abd", "hip_L_abd"} |->
     IF j = "shoulder_L_abd" THEN JackTrack(arm, 1000, 12000)
     ELSE JackTrack(leg, 500, 4500)]

\* the arguments of one assess_activity_rep call
RuleInput(key, targets, series, snaps) ==
  [key |-> key, t0 |-> WinT0, t1 |-> WinT1, targets |-> targets,
   series_a |-> series, snaps_a |-> snaps,
   series_b |-> series, snaps_b |-> ConfidentSnaps(snaps)]

InitAssess ==
  /\ InitDetector
  /\ sig = NoSignal
  /\ rule_out = NoRuleOutput
  /\ NoFrame
  /\ fcall = NoCall
  /\ gait = NoGait
  /\ NoApp
  /\ \E key \in AssessKeys :
     \E targets \in {LibraryTargets(key), <<>>} :
       \/ /\ key # "jumping_jack"
          /\ \E pop \in Populated, allKeys \in BOOLEAN, peak \in PeaksOf(key),
                n \in SnapCounts :
               \E poses \in [1..n -> Bodies] :
                 rule_in = RuleInput(key, targets, SideSeries(key, pop, allKeys, peak),
                                     BodySnaps(poses))
       \/ /\ key = "jumping_jack"
          /\ \E arm \in JackShapes, leg \in JackShapes :
               rule_in = RuleInput(key, targets, JackSeries(arm, leg),
                                   BodySnaps(<<BodyStanding>>))

NextAssess == Assess

SpecAssess == InitAssess /\ [][NextAssess]_vars

----------------------------------------------------------------------------
(* One rep of each of the five activities assessed on series whose samples *)
(* lie before, inside or after the rep window, or that are empty or        *)
(* missing, with arbitrary snapshots.                                      *)

\* a time before the window
EarlyTime == WinT0 - 5

\* where the one sample of a joint's series lies
Placements == {"absent", "empty", "before", "after", "inside"}

\* two joints whose scores decide whether the activity's rep counts
ScoredJoints(key) ==
  IF key = "jumping_jack" THEN <<"shoulder_L_abd", "hip_L_abd">>
  ELSE <<SideJoint(key, "L"), SideJoint(key, "R")>>

\* the series of one joint
PlacedSamples(where, peak) ==
  CASE where = "before" -> <<<<EarlyTime, peak>>>>
    [] where = "after" -> <<<<LateTime, peak>>>>
    [] where = "inside" -> <<<<InWindowTimes[2], peak>>>>
    [] OTHER -> <<>>

\* series_by_joint with the two joints placed as where1 and where2 say
PlacedSeries(key, where1, where2, peak) ==
  LET js == ScoredJoints(key)
      where(j) == IF j = js[1] THEN where1 ELSE where2
  IN [j \in {js[i] : i \in {k \in 1..2 : <<where1, where2>>[k] # "absent"}} |->
        PlacedSamples(where(j), peak)]

InitWindow ==
  /\ InitDetector
  /\ sig = NoSignal
  /\ rule_out = NoRuleOutput
  /\ NoFrame
  /\ fcall = NoCall
  /\ gait = NoGait
  /\ NoApp
  /\ \E key \in AssessorKeys, where1 \in Placements, where2 \in Placements :
     \E targets \in {LibraryTargets(key), <<>>}, peak \in PeaksOf(key),
        poses \in [1..2 -> Bodies] :
       rule_in = RuleInput(key, targets, PlacedSeries(key, where1, where2, peak),
                           BodySnaps(poses))

NextWindow == Assess

SpecWindow == InitWindow /\ [][NextWindow]_vars

----------------------------------------------------------------------------
(* One rep of a guided trial assessed: the series are those a trial of the *)
(* activity accumulates, one list under each of its primary joints, and    *)
(* the targets are the library's.                                          *)

\* the peak a joint reaches: its target, or 10 degrees
Reaches == {"target", "low"}

\* the series a trial of activity key holds after one rep: the joints of the
\* populated sides rise from 10 degrees to their peak and back
TrialSeries(key, pop, reach) ==
  LET peak(j) == IF reach = "target" THEN Get(LibraryTargets(key), j, 9000) ELSE 1000
      holds(j) == \/ pop = "LR"
                  \/ pop = "L" /\ j \in LeftKeys
                  \/ pop = "R" /\ j \in RightKeys
  IN [j \in primary_joints(key) |->
        IF holds(j)
          THEN <<<<InWindowTimes[1], 1000>>, <<InWindowTimes[2], peak(j)>>,
                 <<InWindowTimes[3], 1000>>>>
          ELSE <<>>]

InitLibrary ==
  /\ InitDetector
  /\ sig = NoSignal
  /\ rule_out = NoRuleOutput
  /\ NoFrame
  /\ fcall = NoCall
  /\ gait = NoGait
  /\ NoApp
  /\ \E key \in ActivityKeys, pop \in {"L", "R", "LR"}, reach \in Reaches,
        poses \in [1..3 -> Bodies] :
       rule_in = RuleInput(key, LibraryTargets(key), TrialSeries(key, pop, reach),
                           BodySnaps(poses))

NextLibrary == Assess

SpecLibrary == InitLibrary /\ [][NextLibrary]_vars

----------------------------------------------------------------------------
(* The VideoWorker's loop and the calls of the GUI thread, interleaved     *)
(* statement by statement.                                                 *)

\* calls of set_backend per run
MaxSwitches == 2

InitWorker ==
  /\ InitDetector
  /\ sig = NoSignal
  /\ rule_in = NoRuleInput
  /\ rule_out = NoRuleOutput
  /\ NoFrame
  /\ fcall = NoCall
  /\ gait = NoGait
  /\ NoApp

\* the worker changes, and nothing else
Worker(after) ==
  /\ vw' = after
  /\ UNCHANGED <<detVars, histVars, sig, ruleVars, angVars, libVars, win>>

\* the worker's thread takes the next step of _loop()
LoopStep == vw.pc # "done" /\ Worker(loop_step(vw))

\* on_stop() in the GUI thread calls stop()
CallStop == vw.gui = "idle" /\ ~vw.stopped /\ Worker(stop_step(vw))

\* stop() goes on
StopStep ==
  /\ vw.gui \in {"stop_close", "stop_backend", "stop_release", "stop_cap"}
  /\ Worker(stop_step(vw))

\* on_frame() in the GUI thread, having received a frame, calls set_backend()
CallSetBackend ==
  /\ vw.gui = "idle"
  /\ ~vw.stopped
  /\ vw.frames >= 1
  /\ vw.switches < MaxSwitches
  /\ Worker(set_backend_step(vw))

\* set_backend() goes on
SetBackendStep ==
  /\ vw.gui \in {"switch_none", "switch_init"}
  /\ Worker(set_backend_step(vw))

NextWorker == LoopStep \/ CallStop \/ StopStep \/ CallSetBackend \/ SetBackendStep

SpecWorker == InitWorker /\ [][NextWorker]_vars

\* the worker's thread keeps being scheduled
SpecWorkerFair == SpecWorker /\ WF_vars(LoopStep) /\ WF_vars(StopStep)

----------------------------------------------------------------------------
(* One frame measured by angles_of_interest.  The keypoint map is a        *)
(* standing body of which up to two keypoints are missing, detected at a   *)
(* confidence just below or exactly 0.3, or detected on top of a           *)
(* neighbouring joint.                                                     *)

FrameNames ==
  {"nose", "left_shoulder", "right_shoulder", "left_elbow", "right_elbow",
   "left_wrist", "right_wrist", "left_hip", "right_hip", "left_knee", "right_knee",
   "left_ankle", "right_ankle"}

\* a standing body, shoulders centred at (40, 20) and hips at (40, 48)
FrameStanding ==
  [n \in FrameNames |->
     CASE n = "nose" -> Point(40, 8, 900)
       [] n = "left_shoulder" -> Point(32, 20, 900)
       [] n = "right_shoulder" -> Point(48, 20, 900)
       [] n = "left_elbow" -> Point(28, 32, 900)
       [] n = "right_elbow" -> Point(52, 32, 900)
       [] n = "left_wrist" -> Point(28, 44, 900)
       [] n = "right_wrist" -> Point(60, 32, 900)
       [] n = "left_hip" -> Point(36, 48, 900)
       [] n = "right_hip" -> Point(44, 48, 900)
       [] n = "left_knee" -> Point(36, 64, 900)
       [] n = "right_knee" -> Point(44, 64, 900)
       [] n = "left_ankle" -> Point(36, 80, 900)
       [] n = "right_ankle" -> Point(44, 80, 900)]

\* the place where keypoint n collapses a ray: the wrist on the elbow, the
\* elbow on the shoulder, the shoulder on the elbow, the ankle on the knee,
\* the knee on the hip, the hip and the nose on the centre of the shoulders
Collapsed(n) ==
  CASE n = "left_wrist" -> FrameStanding["left_elbow"]
    [] n = "right_wrist" -> FrameStanding["right_elbow"]
    [] n = "left_elbow" -> FrameStanding["left_shoulder"]
    [] n = "right_elbow" -> FrameStanding["right_shoulder"]
    [] n = "left_shoulder" -> FrameStanding["left_elbow"]
    [] n = "right_shoulder" -> FrameStanding["right_elbow"]
    [] n = "left_ankle" -> FrameStanding["left_knee"]
    [] n = "right_ankle" -> FrameStanding["right_knee"]
    [] n = "left_knee" -> FrameStanding["left_hip"]
    [] n = "right_knee" -> FrameStanding["right_hip"]
    [] OTHER -> Point(40, 20, 900)

\* what can happen to one keypoint
Faults == {"absent", "faint", "edge", "collapsed"}

\* the standing body with the keypoints of DOMAIN faults altered
Frame(faults) ==
  [n \in {m \in FrameNames : m \notin DOMAIN faults \/ faults[m] # "absent"} |->
     IF n \notin DOMAIN faults THEN FrameStanding[n]
     ELSE CASE faults[n] = "faint" -> Point(FrameStanding[n].x, FrameStanding[n].y, 299)
            [] faults[n] = "edge" -> Point(FrameStanding[n].x, FrameStanding[n].y, 300)
            [] faults[n] = "collapsed" -> Collapsed(n)]

\* how many keypoints of a frame are altered
FaultCounts == {0, 1, 2}

InitAngles ==
  /\ InitDetector
  /\ sig = NoSignal
  /\ rule_in = NoRuleInput
  /\ rule_out = NoRuleOutput
  /\ ang = NoAngles
  /\ fcall = NoCall
  /\ gait = NoGait
  /\ NoApp
  /\ \E names \in SUBSET FrameNames :
       /\ Cardinality(names) \in FaultCounts
       /\ \E faults \in [names -> Faults] : kpmap = Frame(faults)

\* angles_of_interest on the frame
Measure ==
  /\ ~ang.done
  /\ ang' = [done |-> TRUE, out |-> angles_of_interest(kpmap)]
  /\ UNCHANGED <<detVars, histVars, sig, ruleVars, kpmap, libVars, appVars>>

NextAngles == Measure

SpecAngles == InitAngles /\ [][NextAngles]_vars

----------------------------------------------------------------------------
(* The scoring functions of scorer.py, each called once on arguments drawn *)
(* from small sets.                                                        *)

Call(fn, args) == [fn |-> fn, args |-> args, done |-> FALSE, out |-> <<>>]

\* target angles: 0, 90 and 175 deg
ScoreTargets == {0, 9000, 17500}

\* distances of the measured angle from the target, either side of it
Deviations == {0, 1, 499, 500, 501, 999, 1000, 1001, 5000}

\* measured angles: around each band limit, absent, and non-finite
Measurements(target) ==
  {Fin(target + d) : d \in Deviations} \cup {Fin(target - d) : d \in Deviations}
    \cup BadSamples

ScoreBandCalls ==
  {Call("score_band", [measured |-> m, target |-> t]) :
     <<m, t>> \in UNION {Measurements(t) \X {t} : t \in ScoreTargets}}

\* rep scores: the three values score_band returns
RepScores == {0, 50, 100}

\* lists of up to three rep scores
RepScoreLists == UNION {[1..n -> RepScores] : n \in 0..3}

\* form_stab: 0, 0.25, 0.365, 1.0, and 1.2 (outside [0, 1])
FormStabs == {0, 250, 365, 1000, 1200}

\* si: 0, 15, 15.01, 40, NaN, +inf, -inf, None
SymmetryIndices == {Fin(0), Fin(1500), Fin(1501), Fin(4000), NaN, PInf, NInf, None}

FinalScoreCalls ==
  {Call("final_score", [rep_scores |-> rs, form_stab |-> fs, si |-> si]) :
     rs \in RepScoreLists, fs \in FormStabs, si \in SymmetryIndices}

\* a side's measure: 0, 5, 10, -5, absent, or not finite
SideValues == {Fin(0), Fin(500), Fin(1000), Fin(-500), None, NaN, PInf, NInf}

SymmetryIndexCalls ==
  {Call("symmetry_index", [L |-> l, R |-> r]) : l \in SideValues, r \in SideValues}

\* angle series handed to form_stability: Bad unusable entries (None and NaN
\* in turn) followed by N floats that start at x and move on by step
StableAngles == {RoundT(9000), RoundT(11072), RoundT(17024)}

AngleSteps == {0, 64, 2048}

SeriesLengths == {3, 4, 5, 6, 10, 15}

BadPrefixes == {0, 1, 2}

Series(x, step, n, bad) ==
  [i \in 1..(bad + n) |->
     IF i <= bad THEN (IF i % 2 = 1 THEN None ELSE NaN)
     ELSE Fin(RoundT(x + (i - bad - 1) * step))]

Backwards(q) == [i \in 1..Len(q) |-> q[Len(q) + 1 - i]]

AngleSeries ==
  LET up == {Series(x, step, n, bad) : x \in StableAngles, step \in AngleSteps,
                                      n \in SeriesLengths, bad \in BadPrefixes}
  IN up \cup {Backwards(q) : q \in up}

FormStabilityCalls ==
  {Call("form_stability", [angle_series |-> q]) : q \in AngleSeries}

ScorerCalls ==
  ScoreBandCalls \cup FinalScoreCalls \cup SymmetryIndexCalls \cup FormStabilityCalls

InitScorer ==
  /\ InitDetector
  /\ sig = NoSignal
  /\ rule_in = NoRuleInput
  /\ rule_out = NoRuleOutput
  /\ NoFrame
  /\ fcall \in ScorerCalls
  /\ gait = NoGait
  /\ NoApp

\* the call returns out
Return(out) ==
  /\ ~fcall.done
  /\ fcall' = [fcall EXCEPT !.done = TRUE, !.out = out]
  /\ UNCHANGED <<detVars, histVars, sig, ruleVars, angVars, gait, appVars>>

CallScoreBand ==
  /\ fcall.fn = "score_band"
  /\ Return(score_band(fcall.args.measured, fcall.args.target))

CallFinalScore ==
  /\ fcall.fn = "final_score"
  /\ \E tie \in Ties :
       Return(final_score(fcall.args.rep_scores, fcall.args.form_stab, fcall.args.si, tie))

CallSymmetryIndex ==
  /\ fcall.fn = "symmetry_index"
  /\ Return(symmetry_index(fcall.args.L, fcall.args.R))

CallFormStability ==
  /\ fcall.fn = "form_stability"
  /\ Return(form_stability(fcall.args.angle_series))

NextScorer == CallScoreBand \/ CallFinalScore \/ CallSymmetryIndex \/ CallFormStability

SpecScorer == InitScorer /\ [][NextScorer]_vars

----------------------------------------------------------------------------
(* The template matcher called once on the samples of a rep window: the    *)
(* caller windows the joint's series with extract_scalar_window and passes *)
(* the result on.                                                          *)

\* the rep window: 0.10 s to 0.50 s
GuideT0 == 10
GuideT1 == 50

\* frame times: one before the window, five in it
GuideTimes == <<0, 10, 20, 30, 40, 50>>

\* curves over the phase 0..1 sampled at phase p / q: constant 10 deg, a rise
\* from 0 to 16 deg, and a rise to 16 deg at mid-phase followed by the return
Shapes == {"flat", "ramp", "peak"}
Curve(shape, p, q) ==
  CASE shape = "flat" -> 1000
    [] shape = "ramp" -> (1600 * p) \div q
    [] shape = "peak" -> IF 2 * p <= q THEN (3200 * p) \div q ELSE (3200 * (q - p)) \div q

\* the members of ts that are in picked, in the order of ts
RECURSIVE Picked(_, _)
Picked(ts, picked) ==
  IF ts = <<>> THEN <<>>
  ELSE (IF Head(ts) \in picked THEN <<Head(ts)>> ELSE <<>>) \o Picked(Tail(ts), picked)

\* the user's series at the frames picked: <<t, angle>> in time order
UserSeries(shape, picked) ==
  LET ts == Picked(GuideTimes, picked)
  IN [j \in DOMAIN ts |->
        <<ts[j], IF ts[j] < GuideT0 THEN 0
                 ELSE Curve(shape, ts[j] - GuideT0, GuideT1 - GuideT0)>>]

UserInputs ==
  {UserSeries(shape, picked) :
     shape \in Shapes, picked \in {P \in SUBSET Range(GuideTimes) : Cardinality(P) >= 3}}

\* the rows of one joint, cell by cell
Rows(jn, cells) == [i \in DOMAIN cells |-> [joint |-> jn, value |-> cells[i]]]

\* a reference curve of n values (n >= 2), off above the user's curve
RefCells(shape, n, off) == [i \in 1..n |-> Fin(Curve(shape, i - 1, n - 1) + off)]
RefLengths == {2, 3, 5}
RefOffsets == {0, 500, 501, 1000, 1001}

File(rows) == [exists |-> TRUE, rows |-> rows]
MissingFile == [exists |-> FALSE, rows |-> <<>>]

\* template CSVs for the squat: missing; without rows; rows without a joint or
\* a value column; the combined knee series; only a side series next to a hip
\* series; hip series only, of equal and of different lengths; a knee series
\* whose cells are all text, all NaN, or a single number
TemplateFiles ==
  {MissingFile, File(<<>>),
   File(<<[joint |-> NoJoint, value |-> None], [joint |-> "knee_ANY_flex", value |-> None]>>),
   File(Rows("hip_L_flex", <<Fin(1000), Fin(1200)>>) \o Rows("hip_R_flex", <<Fin(1400), NaN>>)),
   File(Rows("hip_L_flex", <<Fin(1000), Fin(1200), Fin(1400)>>)
          \o Rows("hip_R_flex", <<Fin(1000), Fin(1200)>>)),
   File(Rows("hip_L_flex", <<Fin(1000), Fin(1200)>>) \o Rows("hip_R_flex", <<Fin(1000), Text>>)),
   File(Rows("knee_ANY_flex", <<Text, Text>>)),
   File(Rows("knee_ANY_flex", <<NaN, NaN>>)),
   File(Rows("knee_ANY_flex", <<Fin(1000)>>))}
    \cup {File(Rows("knee_ANY_flex", RefCells(shape, n, off))) :
            shape \in Shapes, n \in RefLengths, off \in RefOffsets}
    \cup {File(Rows("hip_L_flex", <<Fin(9000)>>) \o Rows("knee_R_flex", RefCells(shape, 3, 0))) :
            shape \in Shapes}

\* an activity with a template entry and one without
GuideKeys == {"squat", "plank"}

GuideCalls ==
  {Call("guide_match_activity_window",
        [key |-> key, file |-> file, series |-> series, t0 |-> GuideT0, t1 |-> GuideT1]) :
     key \in GuideKeys, file \in TemplateFiles, series \in UserInputs}

InitGuide ==
  /\ InitDetector
  /\ sig = NoSignal
  /\ rule_in = NoRuleInput
  /\ rule_out = NoRuleOutput
  /\ NoFrame
  /\ fcall \in GuideCalls
  /\ gait = NoGait
  /\ NoApp

\* the samples of the window are matched against the template
CallGuideMatch ==
  /\ fcall.fn = "guide_match_activity_window"
  /\ LET a == fcall.args
     IN Return(guide_match_activity_window(
                 a.key, a.file, extract_scalar_window(a.series, a.t0, a.t1), a.t0, a.t1))

NextGuide == CallGuideMatch

SpecGuide == InitGuide /\ [][NextGuide]_vars

----------------------------------------------------------------------------
(* A GaitTracker fed frame after frame.                                    *)

\* number of update() calls explored
MaxGaitSamples == 6

\* gaps between consecutive frames: 0.10 s and 0.15 s
GaitDts == {10, 15}

\* ankle heights of a detected ankle: two levels
AnkleYs == {Fin(300), Fin(320)}

\* the frames that may come next, <<left ankle, right ankle, gap>>: both ankles
\* detected, after either gap; or the left ankle undetected (None), 0.10 s
\* after the previous frame
GaitFrames == (AnkleYs \X AnkleYs \X GaitDts) \cup {<<None, Fin(320), 10>>}

InitGait ==
  /\ InitDetector
  /\ sig = NoSignal
  /\ rule_in = NoRuleInput
  /\ rule_out = NoRuleOutput
  /\ NoFrame
  /\ fcall = NoCall
  /\ gait = NoGait
  /\ NoApp

\* the timestamp of the next frame
GaitTick(dt) ==
  IF gait.fed = <<>> THEN now ELSE RoundT(gait.fed[Len(gait.fed)].t + dt)

\* update(t, ankleL_y, ankleR_y) on the next frame
GaitUpdate ==
  /\ Len(gait.fed) < MaxGaitSamples
  /\ \E f \in GaitFrames :
       LET t == GaitTick(f[3]) IN
       gait' = [g |-> gait_update(gait.g, t, f[1], f[2]),
                fed |-> Append(gait.fed, [t |-> t, L |-> f[1], R |-> f[2]])]
  /\ UNCHANGED <<detVars, histVars, sig, ruleVars, angVars, fcall, appVars>>

NextGait == GaitUpdate

SpecGait == InitGait /\ [][NextGait]_vars

----------------------------------------------------------------------------
(* The MainWindow under any sequence of clicks, pipeline errors and frames. *)

MaxSessions == 2

InitSession ==
  /\ InitDetector
  /\ sig = NoSignal
  /\ rule_in = NoRuleInput
  /\ rule_out = NoRuleOutput
  /\ NoFrame
  /\ fcall = NoCall
  /\ gait = NoGait
  /\ NoApp

\* a handler of the open window turns it into the window after it and touches
\* nothing else
Handle(after) ==
  /\ win' = after
  /\ UNCHANGED <<detVars, histVars, sig, ruleVars, angVars, libVars, vw>>

\* Start is clicked (the button is never disabled while a camera exists)
ClickStart == ~win.closed /\ Handle(on_start(win))

\* Stop is clicked
ClickStop == ~win.closed /\ win.btn_stop /\ Handle(on_stop(win))

\* Start Session is clicked
ClickSessionStart ==
  /\ ~win.closed
  /\ ~win.session_active
  /\ win.n_sessions < MaxSessions
  /\ Handle(on_session_start(win))

\* Stop Session is clicked
ClickSessionStop == ~win.closed /\ win.session_active /\ Handle(on_session_stop(win))

\* another camera is picked
CameraChange == ~win.closed /\ Handle(on_camera_change(win))

\* the worker's error signal arrives
PipelineError == ~win.closed /\ win.worker /\ Handle(on_error(win))

\* the worker's frame_ready signal arrives
FrameArrives == ~win.closed /\ win.thread_running /\ Handle(on_frame(win))

\* Start Guided Trial is clicked: on_start_trial(key), which also constructs
\* the trial's RepCycleDetector
StartTrial ==
  /\ ~win.closed
  /\ \E key \in ActivityKeys : win' = on_start_trial(win, key)
  /\ SetDetector(reset)
  /\ op' = "start_trial"
  /\ prev_state' = state
  /\ ret' = NoEvent
  /\ timed_out' = FALSE
  /\ run_start' = NoT
  /\ UNCHANGED <<now, in_a, n_calls, all_finite, go_up_t, last_above_t, sig,
                 ruleVars, angVars, libVars, vw>>

\* the window is closed
CloseWindow == ~win.closed /\ Handle(closeEvent(win))

NextSession ==
  \/ ClickStart \/ ClickStop \/ ClickSessionStart \/ ClickSessionStop
  \/ CameraChange \/ PipelineError \/ FrameArrives \/ CloseWindow \/ StartTrial

SpecSession == InitSession /\ [][NextSession]_vars

----------------------------------------------------------------------------
(* Guided trials: a trial is started, frames feed its detector and its     *)
(* buffers, and another trial is started at any moment. The detector of a  *)
(* squat trial has its own CycleParams, so frames are fed to the trials of *)
(* the other activities, which run on the defaults.                        *)

\* frames per run
MaxFrames == 7

\* the angle of the frame: at rest or at the peak
FrameAngles == {AngleB, AngleHi}

\* the gap to the frame before: 0.48 s
FrameDts == {48}

InitTrial ==
  /\ InitDetector
  /\ sig = NoSignal
  /\ rule_in = NoRuleInput
  /\ rule_out = NoRuleOutput
  /\ NoFrame
  /\ fcall = NoCall
  /\ gait = NoGait
  /\ NoApp

\* a frame arrives while a trial runs
GuidedFrame ==
  /\ win.guided.key \in ActivityKeys \ {"squat"}
  /\ n_calls < MaxFrames
  /\ \E dt \in FrameDts, a \in FrameAngles, verdict \in BOOLEAN :
        /\ Tick(dt) > now
        /\ FeedDet(Tick(dt), a)
        /\ win' = guided_frame(win, Tick(dt), a, ret'.ev /\ verdict)
  /\ sig' = CountEvent(sig)
  /\ UNCHANGED <<ruleVars, angVars, libVars, vw>>

NextTrial == StartTrial \/ GuidedFrame \/ CallReset

SpecTrial == InitTrial /\ [][NextTrial]_vars

----------------------------------------------------------------------------
(* Properties of RepCycleDetector over an arbitrary stream (Spec).         *)

\* a cycle is open
CycleOpen == t_cycle_start # NoT

\* time between the first and the latest sample at or above up_thresh of the
\* attempt that the latest AT_BASELINE -> GOING_UP sample opened
AboveSpan == last_above_t - go_up_t

\* C3: when, after entering GOING_UP, the samples at or above up_thresh span
\* less than peak_hold seconds, the detector is still in GOING_UP, and a sample
\* back inside the baseline band returns it to AT_BASELINE with cycle-start and
\* above-start cleared and no event returned.
C3_ShortHoldAborts ==
  [][(/\ op' = "update"
      /\ state \in {"GOING_UP", "ABOVE"}
      /\ AboveSpan < peak_hold
      /\ is_near_baseline(baseline, in_a'))
     => (/\ state = "GOING_UP"
         /\ state' = "AT_BASELINE"
         /\ t_cycle_start' = NoT
         /\ t_above_start' = NoT
         /\ ~ret'.ev)]_vars

\* an attempt held for less than peak_hold has just been aborted
C3_Witness ==
  /\ op = "update"
  /\ prev_state = "GOING_UP"
  /\ state = "AT_BASELINE"
  /\ ~timed_out
  /\ last_above_t > go_up_t
  /\ AboveSpan < peak_hold
  /\ t_cycle_start = NoT

\* C4: on a stream of finite samples, every returned event has t1 equal to the timestamp of the returning
\* call, t0 equal to the timestamp of the sample that moved the detector from
\* AT_BASELINE to GOING_UP, and min_duration <= t1 - t0 <= max_duration; a
\* sample back in the baseline band in GOING_DOWN whose duration is outside
\* those bounds returns no event and leaves AT_BASELINE with no open cycle.
C4_EventWindow ==
  [][(op' = "update" /\ all_finite')
     => (/\ ret'.ev => (/\ ret'.t1 = now'
                        /\ ret'.t0 = go_up_t
                        /\ min_duration <= ret'.t1 - ret'.t0
                        /\ ret'.t1 - ret'.t0 <= max_duration
                        /\ state = "GOING_DOWN")
         /\ (/\ state = "GOING_DOWN"
             /\ is_near_baseline(baseline, in_a')
             /\ (now' - go_up_t < min_duration \/ now' - go_up_t > max_duration))
            => (~ret'.ev /\ state' = "AT_BASELINE" /\ t_cycle_start' = NoT))]_vars

\* update() has just returned an event
C4_Witness == op = "update" /\ ret.ev /\ state = "AT_BASELINE"

\* C5 as claimed: after every update(t, a), whatever the sample, no cycle is
\* open whose cycle-start is more than max_duration before t.
C5_NoStaleCycleAnySample ==
  op = "update" => ~(CycleOpen /\ now - t_cycle_start > max_duration)

\* C5 amended: after every update(t, a) whose sample is neither None nor NaN,
\* no cycle is open whose cycle-start is more than max_duration before t; the
\* timeout leaves AT_BASELINE with the cycle discarded and returns no event.
C5_NoStaleCycle ==
  /\ (op = "update" /\ ~IsSkipped(in_a))
       => ~(CycleOpen /\ now - t_cycle_start > max_duration)
  /\ timed_out => (state = "AT_BASELINE" /\ ~CycleOpen /\ ~ret.ev
                   /\ t_above_start = NoT)

\* the safety timeout has just discarded a cycle that was open for too long
C5_Witness ==
  /\ op = "update"
  /\ timed_out
  /\ prev_state \in {"GOING_UP", "ABOVE", "GOING_DOWN"}
  /\ now - go_up_t > max_duration

\* C6: on a stream of finite samples, GOING_UP moves to ABOVE only at the end
\* of an unbroken run of samples with excursion >= up_thresh that spans at
\* least peak_hold seconds.
C6_HoldIsContinuous ==
  (all_finite /\ op = "update" /\ prev_state = "GOING_UP" /\ state = "ABOVE")
    => (run_start # NoT /\ now - run_start >= peak_hold)

\* C7: an update with an absent or non-finite sample returns no event and
\* leaves state, baseline, cycle-start and above-start unchanged.
C7_BadSampleIgnored ==
  [][(op' = "update" /\ IsBad(in_a'))
     => (/\ ~ret'.ev
         /\ state' = state
         /\ baseline' = baseline
         /\ t_cycle_start' = t_cycle_start
         /\ t_above_start' = t_above_start)]_vars

\* C9: on a stream of finite samples, an update changes the baseline only
\* when it seeds it in INIT, or in INIT or AT_BASELINE with the sample within
\* baseline_band of the current baseline.
C9_BaselineOnlyNearRest ==
  [][(op' = "update" /\ all_finite' /\ baseline' # baseline)
     => (\/ state = "INIT" /\ baseline = None
         \/ /\ state \in {"INIT", "AT_BASELINE"}
            /\ is_near_baseline(baseline, in_a'))]_vars

----------------------------------------------------------------------------
(* Properties of RepCycleDetector on the one-cycle signal (SpecCycle).     *)

\* the stream has ended
Done == sig.phase = "done"

\* time from the first sample at the peak to the first sample back in the band
ExcursionDuration == sig.t_back1 - sig.t_rise

\* the detector can confirm the hold and close the cycle: a later sample at the
\* peak comes peak_hold or more after the second one, and the first in-band
\* sample after the sample that ended the hold lies between min_duration and
\* max_duration after the first sample at the peak
CycleIsValid ==
  /\ sig.t_hi2 # NoT
  /\ sig.t_hi_last - sig.t_hi2 >= peak_hold
  /\ sig.t_back_gd # NoT
  /\ min_duration <= sig.t_back_gd - sig.t_rise
  /\ sig.t_back_gd - sig.t_rise <= max_duration

C2_LongExcursionNoEvent ==
  (Done /\ ~sig.bad_used /\ ExcursionDuration > max_duration)
  => (sig.n_events = 0 /\ state = "AT_BASELINE" /\ ~CycleOpen)

\* C8: after one absent or non-finite sample, a signal that rests for two
\* samples and then performs a valid cycle brings the detector to AT_BASELINE
\* and makes it return an event.
C8_RecoversAfterBadSample ==
  (Done /\ sig.bad_used /\ sig.n_rest >= 2 /\ CycleIsValid)
  => (sig.n_events >= 1 /\ state = "AT_BASELINE")

----------------------------------------------------------------------------
(* Properties of the rule engine (SpecRules).                              *)

\* C10: two assessments whose arguments agree on every series entry and
\* snapshot inside [t0, t1] return the same counted flag, bands and message.
C10_OnlyWindowMatters ==
  rule_out.done => rule_out.a = rule_out.b

----------------------------------------------------------------------------
(* Properties of the activity assessors over arbitrary arguments            *)
(* (SpecAssess).                                                            *)

\* the rep of activity key has been assessed
Assessed(key) == rule_out.done /\ rule_in.key = key

\* the snapshots of the first argument list that lie inside the window
InWindow(i) ==
  rule_in.t0 <= rule_in.snaps_a[i][1] /\ rule_in.snaps_a[i][1] <= rule_in.t1

\* both hips are detected in snapshot i
HasHips(i) ==
  {"left_hip", "right_hip"} \subseteq DOMAIN rule_in.snaps_a[i][2]

\* the mid-hip height of snapshot i, doubled
MidHip2(i) ==
  rule_in.snaps_a[i][2]["left_hip"].y + rule_in.snaps_a[i][2]["right_hip"].y

\* the mid-hip is 0.03 or more lower (y grows downwards) in a later snapshot
\* of the window than in an earlier one
HipDescent ==
  \E i, j \in DOMAIN rule_in.snaps_a :
    /\ i < j /\ InWindow(i) /\ InWindow(j) /\ HasHips(i) /\ HasHips(j)
    /\ MidHip2(j) - MidHip2(i) >= 2 * 30

\* the better of the scores reported for two joints
BestOf(jl, jr) == Max2(rule_out.a.bands[jl].s, rule_out.a.bands[jr].s)

\* C11: a squat rep is counted exactly when the better of the left and right
\* knee scores is 0.5 or more and the mid-hip descends by 0.03 or more across
\* the window.
C11_SquatCounted ==
  Assessed("squat") =>
    (rule_out.a.counted <=>
       (BestOf("knee_L_flex", "knee_R_flex") >= 50 /\ HipDescent))

\* a squat with a scored knee and a 0.04 descent over three snapshots is counted
C11_Witness ==
  /\ Assessed("squat") /\ rule_out.a.counted /\ HipDescent
  /\ rule_out.a.message = <<"ok">>
  /\ rule_out.a.bands["knee_L_flex"].band \in {"Green", "Amber"}

\* snapshot i is inside the window and carries both wrists at confidence 0.4
\* or more
ValidWrists(i) ==
  /\ InWindow(i)
  /\ {"left_wrist", "right_wrist"} \subseteq DOMAIN rule_in.snaps_a[i][2]
  /\ rule_in.snaps_a[i][2]["left_wrist"].conf >= 400
  /\ rule_in.snaps_a[i][2]["right_wrist"].conf >= 400
ValidWristCount == Cardinality({i \in DOMAIN rule_in.snaps_a : ValidWrists(i)})

\* the left wrist's x minus the right wrist's x in snapshot i
WristGap(i) ==
  rule_in.snaps_a[i][2]["left_wrist"].x - rule_in.snaps_a[i][2]["right_wrist"].x

\* between two valid snapshots with no valid one in between, the wrists swap
\* sides or meet
WristsCrossed ==
  \E i, j \in DOMAIN rule_in.snaps_a :
    /\ i < j /\ ValidWrists(i) /\ ValidWrists(j)
    /\ \A k \in (i + 1)..(j - 1) : ~ValidWrists(k)
    /\ WristGap(i) * WristGap(j) <= 0

\* C12: an arm-abduction rep is counted exactly when the better shoulder
\* abduction score is 0.5 or more and the wrists crossed the midline in the
\* window or fewer than 3 valid in-window wrist samples exist.
C12_ArmCounted ==
  Assessed("arm_abduction") =>
    (rule_out.a.counted <=>
       /\ BestOf("shoulder_L_abd", "shoulder_R_abd") >= 50
       /\ (WristsCrossed \/ ValidWristCount < 3))

\* a rep is counted although the crossing could not be measured
C12_Witness ==
  /\ Assessed("arm_abduction") /\ rule_out.a.counted
  /\ ValidWristCount < 3 /\ ~WristsCrossed

\* the in-window peak of joint j in the first argument list
PeakOf(j) == peak_in_window(Get(rule_in.series_a, j, <<>>), rule_in.t0, rule_in.t1)

\* C13: assessed with the targets of the arm_abduction activity, a rep whose
\* shoulder abduction peaks at 178 degrees in the window, with fewer than 3
\* valid in-window wrist samples, is counted.
C13_WideArmsCounted ==
  (/\ Assessed("arm_abduction")
   /\ rule_in.targets = LibraryTargets("arm_abduction")
   /\ \E j \in ArmJoints : PeakOf(j) = Fin(17800)
   /\ ValidWristCount < 3)
  => rule_out.a.counted

\* the in-window samples <<t, v>> of the joints in keys, first argument list
SamplesOf(keys) ==
  UNION {{rule_in.series_a[k][i] : i \in {n \in DOMAIN rule_in.series_a[k] :
                                            /\ rule_in.t0 <= rule_in.series_a[k][n][1]
                                            /\ rule_in.series_a[k][n][1] <= rule_in.t1}}
         : k \in keys \cap DOMAIN rule_in.series_a}

\* the trajectory has fewer than 4 points in the window / never moves
TooFew(keys) == Cardinality({e[1] : e \in SamplesOf(keys)}) < 4
Motionless(keys) == Cardinality({e[2] : e \in SamplesOf(keys)}) <= 1

\* C14: when the arm or the leg trajectory has too few samples or only
\* trivial variance, the rhythm check passes, so a jumping jack whose best
\* shoulder and best hip abduction scores are both 0.5 or more is counted.
C14_RhythmPassesByDefault ==
  (/\ Assessed("jumping_jack")
   /\ \/ TooFew(JackArms) \/ TooFew(JackLegs)
      \/ Motionless(JackArms) \/ Motionless(JackLegs)
   /\ BestOf("shoulder_L_abd", "shoulder_R_abd") >= 50
   /\ BestOf("hip_L_abd", "hip_R_abd") >= 50)
  => rule_out.a.counted

\* too few samples on one side: the rhythm check is skipped and the rep counted
C14_Witness ==
  /\ Assessed("jumping_jack") /\ rule_out.a.counted
  /\ TooFew(JackArms) /\ ~TooFew(JackLegs)

\* a single-side activity has been assessed
SingleSideKeys == {"forward_flexion", "calf_raise"}
AssessedSingleSide == rule_out.done /\ rule_in.key \in SingleSideKeys

\* some series of that side holds samples
SideHasData(side) ==
  \E k \in DOMAIN rule_in.series_a :
    /\ k \in (IF side = "L" THEN LeftKeys ELSE RightKeys)
    /\ rule_in.series_a[k] # <<>>

\* the side whose primary joint the assessment reports
ReportedSide ==
  IF SideJoint(rule_in.key, "R") \in DOMAIN rule_out.a.bands THEN "R" ELSE "L"

\* C15: forward flexion and calf raise assess the right side when only
\* right-side series hold data, and the left side when only left-side series
\* do, when both do and when none does.
C15_SideWithData ==
  AssessedSingleSide =>
    ReportedSide = (IF SideHasData("R") /\ ~SideHasData("L") THEN "R" ELSE "L")

\* only the right series hold data and the right side is assessed
C15_Witness ==
  /\ AssessedSingleSide /\ SideHasData("R") /\ ~SideHasData("L")
  /\ ReportedSide = "R"

\* the primary joint of the reported side, and the band score_band gives its
\* in-window peak
PrimaryBandJoint == SideJoint(rule_in.key, ReportedSide)
RawBand ==
  score_band(PeakOf(PrimaryBandJoint),
             Get(rule_in.targets, PrimaryBandJoint,
                 IF rule_in.key = "forward_flexion" THEN 9000 ELSE 2500)).band
ReportedBand == rule_out.a.bands[PrimaryBandJoint].band

\* the geometric cue of the activity on the reported side: measurable, and at
\* its threshold (reach within 0.60 hip widths, ankle rise of 0.05 hip widths)
CueMeasured ==
  IF rule_in.key = "forward_flexion"
    THEN min_wrist_to_foot_norm(rule_in.snaps_a, ReportedSide).ok
    ELSE ankle_vertical_rise_norm(rule_in.snaps_a, ReportedSide).ok
CueMet ==
  IF rule_in.key = "forward_flexion"
    THEN LET dmin == min_wrist_to_foot_norm(rule_in.snaps_a, ReportedSide)
         IN dmin.ok /\ 25 * dmin.d2 <= 9 * dmin.hw2
    ELSE LET rise == ankle_vertical_rise_norm(rule_in.snaps_a, ReportedSide)
         IN rise.ok /\ rise.enough

HipsMoved ==
  LET with == {i \in DOMAIN rule_in.snaps_a : HasHips(i)}
  IN /\ Cardinality(with) >= 3
     /\ \E i, j \in with : MidHip2(j) - MidHip2(i) >= 2 * 30

\* the score score_band gives the in-window peak of the primary joint
RawScore ==
  score_band(PeakOf(PrimaryBandJoint),
             Get(rule_in.targets, PrimaryBandJoint,
                 IF rule_in.key = "forward_flexion" THEN 9000 ELSE 2500)).s

\* the rhythm criterion of the jumping jack on the first argument list
InRhythm ==
  rhythm_ok(avg_in_window(JackArms, rule_in.series_a, rule_in.t0, rule_in.t1),
            avg_in_window(JackLegs, rule_in.series_a, rule_in.t0, rule_in.t1))

\* the hint of a criterion, when the criterion is not met
Hint(unmet, text) == IF unmet THEN <<text>> ELSE <<>>

\* the hints of the criteria the assessed rep did not meet, in the
\* assessor's order
UnmetHints ==
  CASE rule_in.key = "squat" ->
         Hint(BestOf("knee_L_flex", "knee_R_flex") < 50, "bend knees deeper")
         \o Hint(~HipsMoved, "lower hips more")
    [] rule_in.key = "arm_abduction" ->
         Hint(BestOf("shoulder_L_abd", "shoulder_R_abd") < 50, "raise arms wider")
         \o Hint(~(WristsCrossed \/ ValidWristCount < 3), "wrists didn't cross midline")
    [] rule_in.key = "forward_flexion" ->
         Hint(RawScore < 50, "flex shoulder more")
         \o Hint(~CueMet, "reach closer to feet")
    [] rule_in.key = "calf_raise" ->
         Hint(RawScore < 50, "plantarflex more")
         \o Hint(~CueMet, "rise onto toes more")
    [] rule_in.key = "jumping_jack" ->
         Hint(BestOf("shoulder_L_abd", "shoulder_R_abd") < 50, "raise arms higher")
         \o Hint(BestOf("hip_L_abd", "hip_R_abd") < 50, "spread legs wider")
         \o Hint(~InRhythm, "sync arms/legs rhythm")
    [] OTHER -> <<>>

HasFaintKeypoint ==
  \E i \in DOMAIN rule_in.snaps_a :
    \E n \in DOMAIN rule_in.snaps_a[i][2] : rule_in.snaps_a[i][2][n].conf < 300

\* C18: keypoints of confidence below 0.3 never contribute to a geometric
\* cue: the assessment of a rep is the one the same rep gets with those
\* keypoints removed from its snapshots.
C18_FaintKeypointsIgnored ==
  rule_out.done => rule_out.a = rule_out.b

\* the wrist-crossing test does ignore a wrist of confidence 0.2
C18_Witness ==
  /\ Assessed("arm_abduction") /\ HasFaintKeypoint
  /\ ValidWristCount = 2 /\ rule_out.a.counted /\ rule_out.a = rule_out.b

\* C20: for a key that is not one of the five known activities
\* assess_activity_rep returns counted = True, no bands and the message "ok",
\* whatever the other arguments.
C20_UnknownKeyCounted ==
  (rule_out.done /\ rule_in.key \notin AssessorKeys) =>
    /\ rule_out.a.counted
    /\ rule_out.a.bands = <<>>
    /\ rule_out.a.message = <<"ok">>

\* a key without assessor, assessed on a rep that no assessor would count
C20_Witness ==
  /\ rule_out.done /\ rule_in.key = "plank"
  /\ rule_in.series_a = <<>>
  /\ \A i \in DOMAIN rule_in.snaps_a : rule_in.snaps_a[i][2] = <<>>
  /\ rule_out.a.counted

----------------------------------------------------------------------------
(* Properties of angles_of_interest over one frame (SpecAngles).           *)

\* keypoint n is in the frame at confidence 0.3 or more
Detected(n) == n \in DOMAIN kpmap /\ kpmap[n].conf >= 300

\* the keypoints an angle is computed from
Requires(angle) ==
  CASE angle = "elbow_left" -> {"left_wrist", "left_elbow", "left_shoulder"}
    [] angle = "elbow_right" -> {"right_wrist", "right_elbow", "right_shoulder"}
    [] angle = "knee_left" -> {"left_ankle", "left_knee", "left_hip"}
    [] angle = "knee_right" -> {"right_ankle", "right_knee", "right_hip"}
    [] angle = "hip_left" -> {"left_shoulder", "right_shoulder", "left_knee", "left_hip"}
    [] angle = "hip_right" -> {"left_shoulder", "right_shoulder", "right_knee", "right_hip"}
    [] angle = "neck_flex" ->
         {"left_shoulder", "right_shoulder", "left_hip", "right_hip", "nose"}

\* two keypoints are at different places
Apart(m, n) == kpmap[m].x # kpmap[n].x \/ kpmap[m].y # kpmap[n].y

\* keypoint n is away from the middle of keypoints a and b
OffCentre(n, a, b) ==
  \/ 2 * kpmap[n].x # kpmap[a].x + kpmap[b].x
  \/ 2 * kpmap[n].y # kpmap[a].y + kpmap[b].y

\* both rays of the angle have a length
RaysDefined(angle) ==
  CASE angle = "elbow_left" ->
         Apart("left_wrist", "left_elbow") /\ Apart("left_shoulder", "left_elbow")
    [] angle = "elbow_right" ->
         Apart("right_wrist", "right_elbow") /\ Apart("right_shoulder", "right_elbow")
    [] angle = "knee_left" ->
         Apart("left_ankle", "left_knee") /\ Apart("left_hip", "left_knee")
    [] angle = "knee_right" ->
         Apart("right_ankle", "right_knee") /\ Apart("right_hip", "right_knee")
    [] angle = "hip_left" ->
         /\ Apart("left_knee", "left_hip")
         /\ OffCentre("left_hip", "left_shoulder", "right_shoulder")
    [] angle = "hip_right" ->
         /\ Apart("right_knee", "right_hip")
         /\ OffCentre("right_hip", "left_shoulder", "right_shoulder")
    [] angle = "neck_flex" ->
         /\ OffCentre("nose", "left_shoulder", "right_shoulder")
         /\ \/ kpmap["left_shoulder"].x + kpmap["right_shoulder"].x
                 # kpmap["left_hip"].x + kpmap["right_hip"].x
            \/ kpmap["left_shoulder"].y + kpmap["right_shoulder"].y
                 # kpmap["left_hip"].y + kpmap["right_hip"].y

\* the angle can be determined from the frame
Determined(angle) ==
  (\A n \in Requires(angle) : Detected(n)) /\ RaysDefined(angle)

\* C19: angles_of_interest holds an entry for an angle exactly when every
\* keypoint the angle requires is present with confidence 0.30 or more and
\* both rays at the vertex are non-degenerate; it holds no other entry.
C19_AngleIffDetermined ==
  ang.done =>
    /\ DOMAIN ang.out \subseteq AngleNames
    /\ \A angle \in AngleNames : (angle \in DOMAIN ang.out) <=> Determined(angle)

\* a frame with a keypoint just below 0.3: its angles are omitted, the other
\* angles are reported
C19_Witness ==
  /\ ang.done
  /\ "left_knee" \in DOMAIN kpmap /\ kpmap["left_knee"].conf = 299
  /\ "knee_left" \notin DOMAIN ang.out /\ "hip_left" \notin DOMAIN ang.out
  /\ "knee_right" \in DOMAIN ang.out /\ "elbow_left" \in DOMAIN ang.out


----------------------------------------------------------------------------
(* Score and band of a RepAssessment (SpecAssess).                         *)

\* the band that goes with a score: 1.0 Green, 0.5 Amber, otherwise Red
BandOfScore(s) == IF s = 100 THEN "Green" ELSE IF s = 50 THEN "Amber" ELSE "Red"

\* every band entry of assessment o carries the band of its score
BandsFollowScores(o) ==
  \A j \in DOMAIN o.bands : o.bands[j].band = BandOfScore(o.bands[j].s)

\* C30: every band entry of every RepAssessment is the band derived from its
\* score (1.0 Green, 0.5 Amber, 0.0 Red), for all activities and all inputs,
\* reps with a weak or unmeasurable geometric cue included.
C30_BandDerivedFromScore ==
  rule_out.done => (BandsFollowScores(rule_out.a) /\ BandsFollowScores(rule_out.b))

\* a forward flexion or calf raise whose primary joint scored 0.5 or more was
\* assessed without a measurable cue
C30_Witness ==
  /\ AssessedSingleSide
  /\ ~CueMeasured
  /\ RawScore >= 50

----------------------------------------------------------------------------
(* The transition graph of the RepCycleDetector (Spec).                    *)

\* the state changes of an ordinary cycle, and its abort
ListedTransitions ==
  { <<"INIT", "AT_BASELINE">>, <<"AT_BASELINE", "GOING_UP">>,
    <<"GOING_UP", "ABOVE">>, <<"GOING_UP", "AT_BASELINE">>,
    <<"ABOVE", "GOING_DOWN">>, <<"GOING_DOWN", "AT_BASELINE">> }

\* the states in which a cycle is open
OpenCycle == {"GOING_UP", "ABOVE", "GOING_DOWN"}

\* C29: the state changes only along INIT -> AT_BASELINE, AT_BASELINE ->
\* GOING_UP, GOING_UP -> ABOVE, GOING_UP -> AT_BASELINE, ABOVE -> GOING_DOWN,
\* GOING_DOWN -> AT_BASELINE and the timeout reset of an open cycle to
\* AT_BASELINE; INIT is entered again only by reset(); an event is returned
\* only by an update call that finds the detector in GOING_DOWN (and leaves it
\* in AT_BASELINE), one event at most per call.  GOING_DOWN is entered only
\* from ABOVE, ABOVE only from GOING_UP and GOING_UP only from AT_BASELINE, so
\* the detector passes through the three in that order between two events.
C29_ListedTransitionsOnly ==
  [][/\ state' # state
          => \/ (op' = "update" /\ <<state, state'>> \in ListedTransitions)
             \/ (op' = "update" /\ timed_out' /\ state \in OpenCycle
                   /\ state' = "AT_BASELINE")
             \/ (op' = "reset" /\ state' = "INIT")
     /\ state' = "INIT" => (state = "INIT" \/ op' = "reset")
     /\ ret'.ev => (/\ op' = "update"
                    /\ state = "GOING_DOWN"
                    /\ state' = "AT_BASELINE"
                    /\ ret' \in [ev : {TRUE}, t0 : Int, t1 : Int])]_vars

\* the last call of the stream found the detector in GOING_DOWN, returned an
\* event and left it in AT_BASELINE
C29_Witness ==
  /\ op = "update"
  /\ ret.ev
  /\ prev_state = "GOING_DOWN"
  /\ state = "AT_BASELINE"
  /\ go_up_t # NoT
  /\ n_calls = MaxSamples

\* C33: after any sequence of update and reset calls, the cycle-start
\* timestamp is set exactly when the state is GOING_UP, ABOVE or GOING_DOWN,
\* and the above-start timestamp is unset whenever the state is INIT or
\* AT_BASELINE.
C33_CycleStartIffOpen ==
  /\ (t_cycle_start # NoT) <=> (state \in OpenCycle)
  /\ state \in {"INIT", "AT_BASELINE"} => t_above_start = NoT

\* the safety timeout has just taken a detector that was holding above the
\* threshold back to AT_BASELINE, with both timestamps unset
C33_Witness ==
  /\ op = "update"
  /\ timed_out
  /\ prev_state = "ABOVE"
  /\ state = "AT_BASELINE"
  /\ t_cycle_start = NoT
  /\ t_above_start = NoT

\* C34: on a stream whose timestamps never decrease, every event has
\* t0 <= t1, and the t1 of an event is <= the t0 of the event that follows it.
C34_EventsInOrder ==
  [][ret'.ev => (/\ ret'.t0 <= ret'.t1
                 /\ sig.n_events >= 1 => sig.ev_t1 <= ret'.t0)]_vars

\* a second event has been returned by the detector
C34_Witness ==
  /\ op = "update"
  /\ ret.ev
  /\ sig.n_events = 2

----------------------------------------------------------------------------
(* Properties of the scoring functions (SpecScorer).                       *)

\* fn was called and has returned
Returned(fn) == fcall.fn = fn /\ fcall.done

\* |measured - target| of a finite measurement
DeviationOf(m, target) == IF m.v >= target THEN m.v - target ELSE target - m.v

\* the (score, band) pair the deviation d calls for
BandFor(d) ==
  IF d <= 500 THEN [s |-> 100, band |-> "Green"]
  ELSE IF d <= 1000 THEN [s |-> 50, band |-> "Amber"]
  ELSE [s |-> 0, band |-> "Red"]

\* C21: score_band returns (1.0, Green) for a deviation of at most 5 deg,
\* (0.5, Amber) for one above 5 and at most 10 deg, (0.0, Red) above 10 deg and
\* for a measurement that is absent or not finite; no measurement that is
\* further from the target than another scores higher than it
C21_ScoreBandByDeviation ==
  Returned("score_band") =>
    LET m == fcall.args.measured
        t == fcall.args.target
    IN /\ m.k # "fin" => fcall.out = [s |-> 0, band |-> "Red"]
       /\ m.k = "fin" => fcall.out = BandFor(DeviationOf(m, t))
       /\ m.k = "fin" =>
            \A m2 \in Measurements(t) :
              m2.k = "fin" /\ DeviationOf(m2, t) >= DeviationOf(m, t)
                => score_band(m2, t).s <= fcall.out.s

\* a measurement exactly 10 deg below the target was scored Amber
C21_Witness ==
  /\ Returned("score_band")
  /\ fcall.args.measured = Fin(fcall.args.target - 1000)
  /\ fcall.out = [s |-> 50, band |-> "Amber"]


\* 100 * (0.7 * mean(rep_scores) + 0.3 * form_stab) in tenths, as a ratio:
\* the mean of no scores counts as 0
Unpenalised ==
  LET rs == fcall.args.rep_scores
      n == Len(rs)
      total == SumScores(rs)
  IN [num |-> (IF n = 0 THEN 0 ELSE 70 * total) + 3 * fcall.args.form_stab * (IF n = 0 THEN 1 ELSE n),
      den |-> 10 * (IF n = 0 THEN 1 ELSE n)]

\* v is num / den rounded to a whole number
IsRounded(v, num, den) == 2 * den * v - den <= 2 * num /\ 2 * num <= 2 * den * v + den

\* si > 15 for a float si
Above15(si) == si.k = "pinf" \/ (si.k = "fin" /\ si.v > 1500)

\* C26: for a float si, final_score is 100 * (0.7 * mean(rep_scores) +
\* 0.3 * form_stab), times 0.9 exactly when si > 15 (not at si = 15), rounded to
\* one decimal; no rep scores count as mean 0; with every rep score and
\* form_stab in [0, 1] the result is in [0, 100]
C26_FinalScoreFormula ==
  Returned("final_score") /\ fcall.args.si.k # "none" =>
    LET u == Unpenalised
        v == fcall.out.v
    IN /\ ~fcall.out.raised
       /\ Above15(fcall.args.si) => IsRounded(v, 9 * u.num, 10 * u.den)
       /\ ~Above15(fcall.args.si) => IsRounded(v, u.num, u.den)
       /\ fcall.args.form_stab <= 1000 => 0 <= v /\ v <= 1000

\* rep scores 1.0 and 0.5, form_stab 0.365, si 15.01: 100 * 0.6345 * 0.9 = 57.105,
\* reported as 57.1
C26_Witness ==
  /\ Returned("final_score")
  /\ fcall.args.rep_scores = <<100, 50>>
  /\ fcall.args.form_stab = 365
  /\ fcall.args.si = Fin(1501)
  /\ fcall.out = Value(571)

\* a side is missing: None or not a finite number
Missing(x) == x.k # "fin"

\* C27: symmetry_index returns 0 when either side is missing (None or not
\* finite) or when L + R is zero, and 0 for equal positive sides
C27_SymmetryIndexZero ==
  Returned("symmetry_index") =>
    LET L == fcall.args.L
        R == fcall.args.R
    IN /\ Missing(L) \/ Missing(R) => fcall.out = Fin(0)
       /\ ~Missing(L) /\ ~Missing(R) /\ L.v + R.v = 0 => fcall.out = Fin(0)
       /\ ~Missing(L) /\ L = R /\ L.v > 0 => fcall.out = Fin(0)

\* symmetry_index(nan, 5) returned NaN
C27_Witness ==
  /\ Returned("symmetry_index")
  /\ fcall.args.L = NaN
  /\ fcall.args.R = Fin(500)
  /\ fcall.out = NaN

\* the finite entries of the series of the returned form_stability call
StabilityInput == FiniteValues(fcall.args.angle_series)

\* at least five finite entries, all of them the same value
Identical ==
  /\ Len(StabilityInput) >= 5
  /\ \A i \in 1..Len(StabilityInput) : StabilityInput[i] = StabilityInput[1]

----------------------------------------------------------------------------
(* Properties of the template matcher (SpecGuide).                         *)

Matched == Returned("guide_match_activity_window")

\* the samples of the call that lie in the rep window
WindowSamples == extract_scalar_window(fcall.args.series, fcall.args.t0, fcall.args.t1)

\* the per-joint reference series read for the call's activity
TplSeries == load_template_for_activity(fcall.args.key, fcall.args.file)

\* the joints of the activity's preference order that have a reference series
Preferred == {jn \in Range(Candidates(fcall.args.key)) : jn \in DOMAIN TplSeries}

\* no reference scalar series is available: unknown activity, missing file,
\* no series in the file, only empty series, or (none of the preferred joints
\* being present) series of different lengths to average
NoReference ==
  \/ fcall.args.key \notin TemplateKeys
  \/ ~fcall.args.file.exists
  \/ \A jn \in DOMAIN TplSeries : TplSeries[jn] = <<>>
  \/ /\ Preferred = {}
     /\ \E j1 \in DOMAIN TplSeries, j2 \in DOMAIN TplSeries :
          Len(TplSeries[j1]) # Len(TplSeries[j2])

\* C22: with fewer than 4 user samples in the window, or without a reference
\* scalar series, guide_match_activity_window raises nothing and returns
\* mean_abs_err NaN, phase_corr 0.0 and band Red
C22_DegenerateResult ==
  Matched /\ (Len(WindowSamples) < 4 \/ NoReference) => fcall.out = Degenerate

\* four samples in the window and hip series of 3 and 2 values only: the call raised
C22_Witness ==
  /\ Matched
  /\ Len(WindowSamples) >= 4
  /\ DOMAIN TplSeries = {"hip_L_flex", "hip_R_flex"}
  /\ Len(TplSeries["hip_L_flex"]) = 3 /\ Len(TplSeries["hip_R_flex"]) = 2
  /\ fcall.out.raised


\* the reference scalar series chosen for the call, and the user's samples
\* interpolated onto its phase grid
RefScalar == template_scalar_for(fcall.args.key, TplSeries)
Aligned == uv_on_tpl(WindowSamples, fcall.args.t0, fcall.args.t1, Len(RefScalar.a))

\* the call went past its early return and compared the two series
Compared ==
  Matched /\ ~fcall.out.raised /\ RefScalar.kind = "array" /\ Len(WindowSamples) >= 4

\* two arrays of the same numbers (NaN equals nothing)
SameNumbers(a, b) ==
  /\ Len(a) = Len(b)
  /\ \A i \in DOMAIN a : a[i].k = "fin" /\ b[i].k = "fin" /\ a[i].v = b[i].v

\* the band is the one the reported mean_abs_err calls for
BandByError ==
  LET m == fcall.out.mean_abs_err
      upto5 == m.k = "fin" /\ m.num <= 500 * m.den
      upto10 == m.k = "fin" /\ m.num <= 1000 * m.den
  IN /\ fcall.out.band = "Green" <=> upto5
     /\ fcall.out.band = "Amber" <=> (upto10 /\ ~upto5)
     /\ fcall.out.band = "Red" <=> ~upto10

----------------------------------------------------------------------------
(* Properties of the GaitTracker (SpecGait).                               *)

Sides == {"L", "R"}

\* the events recorded for a side, and the height fed for it in frame i
EventsOf(side) == IF side = "L" THEN gait.g.events_L ELSE gait.g.events_R
FedY(side, i) == IF side = "L" THEN gait.fed[i].L ELSE gait.fed[i].R

\* frame i is the middle of three consecutive frames with finite heights of the
\* side, and strictly lower than both neighbours
StrictMinimum(side, i) ==
  /\ 1 < i /\ i < Len(gait.fed)
  /\ \A j \in {i - 1, i, i + 1} : FedY(side, j).k = "fin"
  /\ FedY(side, i).v < FedY(side, i - 1).v
  /\ FedY(side, i).v < FedY(side, i + 1).v

\* C24: every recorded step event of a side is a fed frame that is the middle
\* of three consecutive finite samples and strictly lower than both neighbours;
\* consecutive events of a side are at least min_event_separation_s apart; no
\* frame is recorded twice for a side
C24_EventsAreSeparatedMinima ==
  \A side \in Sides :
    LET ev == EventsOf(side) IN
    /\ \A k \in DOMAIN ev :
         /\ StrictMinimum(side, ev[k].n)
         /\ ev[k].t = gait.fed[ev[k].n].t
         /\ ev[k].y = FedY(side, ev[k].n).v
    /\ \A k \in 1..(Len(ev) - 1) : ev[k + 1].t - ev[k].t >= min_event_separation_s
    /\ \A k1 \in DOMAIN ev, k2 \in DOMAIN ev : k1 # k2 => ev[k1].n # ev[k2].n

\* the left side has two events exactly 0.25 s apart; the right side has one,
\* and a strict minimum 0.20 s after it that was not recorded
C24_Witness ==
  LET evL == gait.g.events_L
      evR == gait.g.events_R
  IN /\ Len(evL) = 2
     /\ evL[2].t - evL[1].t = min_event_separation_s
     /\ Len(evR) = 1
     /\ \E i \in DOMAIN gait.fed :
          /\ StrictMinimum("R", i)
          /\ gait.fed[i].t = evR[1].t + 20

\* the dict metrics() returns
Metrics == metrics(gait.g)

\* a side has a measured step time
Measured(st) == st.k = "fin"

\* C25: metrics() reports symmetry_index as None, never as a number, while the
\* left or the right side has fewer than two recorded events; it is a number
\* when both sides have a measured step time; cadence_spm is 0 exactly when
\* neither side has one
C25_SymmetryAbsentUntilMeasured ==
  /\ (Len(gait.g.events_L) < 2 \/ Len(gait.g.events_R) < 2) => Metrics.symmetry_index = None
  /\ (Measured(Metrics.step_time_L) /\ Measured(Metrics.step_time_R))
       => Metrics.symmetry_index.k = "fin"
  /\ Metrics.cadence_spm = 0
       <=> (~Measured(Metrics.step_time_L) /\ ~Measured(Metrics.step_time_R))

\* both sides have two events, the left 0.25 s apart and the right 0.35 s apart:
\* the symmetry index is 100 * 0.10 / 0.30 = 33.33 and the cadence 200 steps/min
C25_Witness ==
  /\ Metrics.step_time_L = Fin(25)
  /\ Metrics.step_time_R = Fin(35)
  /\ Metrics.symmetry_index = Fin(3333)
  /\ Metrics.cadence_spm = 20000

----------------------------------------------------------------------------
(* Properties of the MainWindow's logging session (SpecSession).           *)

\* a session has been started and is over
SessionOver == win.n_sessions >= 1 /\ ~win.session_active

\* C32: every logging session that is started is closed exactly once, with
\* its final summary (logger.close called with final_scores), whether it ends
\* by Stop Session or by closing the window, whatever Start, Stop and camera
\* changes happened in between.
C32_SessionClosedOnceWithSummary ==
  /\ win.closes <= 1
  /\ SessionOver => (win.closes = 1 /\ win.finals = 1)
  /\ win.closed => ~win.session_active

\* the window has been closed in the middle of a session
C32_Witness ==
  /\ win.closed
  /\ win.n_sessions >= 1
  /\ win.closes = 1

\* C36: whenever session_active is true an open SessionLogger is attached,
\* so every frame processed during an active session is logged.
C36_ActiveSessionHasLogger ==
  /\ win.session_active => win.logger = "open"
  /\ win.frame # "dropped"

\* a frame has arrived during an active session
C36_Witness ==
  /\ win.session_active
  /\ win.thread_running
  /\ win.frame # "none"

----------------------------------------------------------------------------
(* Properties of a guided trial's start (SpecTrial)                        *)

\* C31: on_start_trial installs a detector in state INIT with unset baseline
\* and no open cycle, an empty angle series for each primary joint of the
\* activity and no other, an empty snapshot buffer and reps_done = 0,
\* whatever the trial before was left with; reset() leaves the detector with
\* the very fields of a new one, on which alone its reaction to the samples
\* that follow depends.
C31_TrialStartsFresh ==
  /\ op \in {"start_trial", "reset"} =>
        /\ state = "INIT"
        /\ baseline = None
        /\ last_t = NoT
        /\ t_cycle_start = NoT
        /\ t_above_start = NoT
  /\ op = "start_trial" =>
        /\ win.guided.key \in ActivityKeys
        /\ DOMAIN win.guided.series_by_joint = primary_joints(win.guided.key)
        /\ \A j \in DOMAIN win.guided.series_by_joint :
              win.guided.series_by_joint[j] = <<>>
        /\ win.guided.kp_snaps = <<>>
        /\ win.guided.reps_done = 0

\* a trial is started while the one before, which has a rep behind it, is in
\* the middle of its next cycle
C31_Witness ==
  /\ op = "start_trial"
  /\ prev_state \in OpenCycle
  /\ sig.n_events >= 1

----------------------------------------------------------------------------
(* Properties of a rep window without angle samples (SpecWindow)           *)

\* the joints whose series the assessor of the activity reads
JointsRead(key, series_by_joint) ==
  LET side == dominant_side_from_series(DOMAIN series_by_joint)
  IN CASE key = "squat" -> SquatJoints
       [] key = "arm_abduction" -> ArmJoints
       [] key = "forward_flexion" ->
            IF side = "L" THEN {"shoulder_L_flex", "hip_L_flex"}
            ELSE {"shoulder_R_flex", "hip_R_flex"}
       [] key = "calf_raise" -> IF side = "L" THEN {"ankle_L_pf"} ELSE {"ankle_R_pf"}
       [] key = "jumping_jack" -> JackArms \cup JackLegs

\* no series that the assessor reads has a sample inside [t0, t1]
EmptyWindow ==
  \A j \in JointsRead(rule_in.key, rule_in.series_a) :
    LET series == Get(rule_in.series_a, j, <<>>)
    IN \A i \in DOMAIN series :
         ~(rule_in.t0 <= series[i][1] /\ series[i][1] <= rule_in.t1)

\* the assessment is not counted and each of its bands is (0.0, Red)
AllRed(o) ==
  /\ ~o.counted
  /\ \A j \in DOMAIN o.bands : o.bands[j] = [s |-> 0, band |-> "Red"]

\* C35: for each of the five activities, a rep whose window holds no angle
\* sample of the joints the assessor reads is not counted and every band
\* entry of its assessment is (0.0, Red), whatever the snapshots contain.
C35_EmptyWindowNeverCounted ==
  (rule_out.done /\ rule_in.key \in AssessorKeys /\ EmptyWindow) =>
    (AllRed(rule_out.a) /\ AllRed(rule_out.b))

\* a rep is assessed whose series hold a sample, but outside the window,
\* and whose snapshots show the wrist at the foot and the ankle rising
C35_Witness ==
  /\ rule_out.done
  /\ rule_in.key \in {"forward_flexion", "calf_raise"}
  /\ EmptyWindow
  /\ \E j \in DOMAIN rule_in.series_a : rule_in.series_a[j] # <<>>
  /\ rule_in.snaps_a[1][2] = BodyStanding
  /\ rule_in.snaps_a[2][2] = BodyDeep
  /\ rule_out.a.bands # <<>>

----------------------------------------------------------------------------
(* Properties of the activity library and the assessors (SpecLibrary)      *)

\* the joints whose score decides whether the assessor counts the rep
GatingJoints(key, series_by_joint) ==
  LET side == dominant_side_from_series(DOMAIN series_by_joint)
  IN CASE key = "squat" -> {"knee_L_flex", "knee_R_flex"}
       [] key = "arm_abduction" -> ArmJoints
       [] key = "forward_flexion" ->
            IF side = "L" THEN {"shoulder_L_flex"} ELSE {"shoulder_R_flex"}
       [] key = "calf_raise" -> IF side = "L" THEN {"ankle_L_pf"} ELSE {"ankle_R_pf"}
       [] key = "jumping_jack" -> JackArms \cup JackLegs

\* C38: for every activity of ACTIVITY_LIBRARY, each joint whose score gates
\* counting in the activity's assessor is one of the activity's primary
\* joints, under which the trial keeps its series, and is scored in the
\* assessment of the trial's rep.
C38_GatingJointsArePrimary ==
  rule_out.done =>
    /\ GatingJoints(rule_in.key, rule_in.series_a) \subseteq primary_joints(rule_in.key)
    /\ GatingJoints(rule_in.key, rule_in.series_a) \subseteq DOMAIN rule_in.series_a
    /\ GatingJoints(rule_in.key, rule_in.series_a) \subseteq DOMAIN rule_out.a.bands

\* the rep of a calf-raise trial, however well performed, is not counted
CalfRaiseNeverCounted ==
  (rule_out.done /\ rule_in.key = "calf_raise") =>
    (~rule_out.a.counted /\ ~rule_out.b.counted)

\* the rep of a trial of each other activity can be counted
CountedReached(key) == rule_out.done /\ rule_in.key = key /\ rule_out.a.counted
SquatCounted == CountedReached("squat")
ArmAbductionCounted == CountedReached("arm_abduction")
ForwardFlexionCounted == CountedReached("forward_flexion")
JumpingJackCounted == CountedReached("jumping_jack")

\* a calf-raise rep that reaches the library's target on both ankles, with
\* the left ankle rising in the snapshots, has been assessed
C38_Witness ==
  /\ rule_out.done
  /\ rule_in.key = "calf_raise"
  /\ \A j \in primary_joints("calf_raise") :
        /\ Len(rule_in.series_a[j]) = 3
        /\ rule_in.series_a[j][2][2] = LibraryTargets("calf_raise")[j]
  /\ rule_in.snaps_a[1][2] = BodyStanding
  /\ rule_in.snaps_a[2][2] = BodyDeep
  /\ ~rule_out.a.counted

----------------------------------------------------------------------------
(* Properties of the VideoWorker under calls from the GUI thread           *)
(* (SpecWorker)                                                            *)

\* C37: when stop() or set_backend() is called from the GUI thread while
\* _loop() runs in the worker's thread, in every interleaving the loop never
\* reads from a released capture, never calls infer on a backend that has
\* been set to None, and emits no error signal because of the stop or the
\* switch.
C37_LoopSafeUnderStopAndSwitch ==
  /\ ~vw.read_released
  /\ ~vw.infer_gone
  /\ vw.errors = 0

\* once stop() has returned, the loop takes no further turn: it is left at
\* the next test of self.running at the latest
LoopLeftAfterStop == (vw.stopped /\ vw.pc = "while") => ~vw.running

\* after stop() the loop terminates
LoopTerminates == vw.stopped ~> (vw.pc = "done")

\* stop() has returned while the loop was running, and the loop has ended
C37_Witness ==
  /\ vw.stopped
  /\ vw.frames >= 1
  /\ vw.pc = "done"

============================================================================
